---- MODULE Spec2Model ----
(***************************************************************************)
(* Model of scrap_menu.py: the menu-discovery crawler.                     *)
(*                                                                         *)
(* Python strings are sequences of one-character strings, so that the      *)
(* substring, prefix and suffix tests of the source are computed rather    *)
(* than assumed.  An HTML document is the record of what BeautifulSoup and *)
(* the regular expressions of the source extract from it: its anchors, its *)
(* title, its robots meta tag, and the counts of price tokens, currency    *)
(* symbols and category keywords in its visible text.                      *)
(***************************************************************************)
EXTENDS Integers, Sequences, FiniteSets, TLC

(***************************************************************************)
(* Bounds of the model.                                                    *)
(***************************************************************************)
\* entries of COMMON_MENU_PATHS that are guessed (the table is cut to its head)
MaxGuessed == 1
\* largest page budget (--max-pages-per-site) a run is started with
MaxPages == 2
\* runs of the program against the same output root
MaxRuns == 2
\* restaurants of the input list
MaxRestaurants == 2
\* anchors of a homepage handed to discover_menu_links on its own
MaxAnchors == 2

(***************************************************************************)
(* Python str operations.                                                  *)
(***************************************************************************)
\* None, where the value is otherwise a record, a string or a number
None == [none |-> TRUE]
NoneStr == <<"None">>
NoneInt == 0 - 1

UpperChars == <<"A","B","C","D","E","F","G","H","I","J","K","L","M","N","O","P","Q","R","S","T","U","V","W","X","Y","Z">>
LowerChars == <<"a","b","c","d","e","f","g","h","i","j","k","l","m","n","o","p","q","r","s","t","u","v","w","x","y","z">>
DigitChars == <<"0","1","2","3","4","5","6","7","8","9">>

Range(s) == {s[i] : i \in DOMAIN s}

LowerChar(c) ==
    IF c \in Range(UpperChars)
    THEN LowerChars[CHOOSE i \in DOMAIN UpperChars : UpperChars[i] = c]
    ELSE c

\* str.lower()
Lower(s) == [i \in DOMAIN s |-> LowerChar(s[i])]

\* s[:n]
Take(s, n) == SubSeq(s, 1, IF Len(s) < n THEN Len(s) ELSE n)

\* s[n:]
Drop(s, n) == SubSeq(s, n + 1, Len(s))

\* s.startswith(p)
StartsWith(s, p) == Len(p) <= Len(s) /\ SubSeq(s, 1, Len(p)) = p

\* s.endswith(p)
EndsWith(s, p) == Len(p) <= Len(s) /\ SubSeq(s, Len(s) - Len(p) + 1, Len(s)) = p

\* sub in s
Contains(s, sub) ==
    \E i \in 0..(Len(s) - Len(sub)) : SubSeq(s, i + 1, i + Len(sub)) = sub

\* s.find(sub, start): the first index > start at which sub occurs, 0 if none
\* (indices are 1-based; start counts the characters skipped)
Find(s, sub, start) ==
    LET hits == {i \in (start + 1)..(Len(s) - Len(sub) + 1) :
                    SubSeq(s, i, i + Len(sub) - 1) = sub}
    IN  IF hits = {} THEN 0 ELSE CHOOSE i \in hits : \A j \in hits : i <= j

\* s.rfind(sub): the last index at which sub occurs, 0 if none
RFind(s, sub) ==
    LET hits == {i \in 1..(Len(s) - Len(sub) + 1) :
                    SubSeq(s, i, i + Len(sub) - 1) = sub}
    IN  IF hits = {} THEN 0 ELSE CHOOSE i \in hits : \A j \in hits : i >= j

RECURSIVE LStrip(_, _)
\* s.lstrip(chars)
LStrip(s, chars) ==
    IF s # <<>> /\ Head(s) \in chars THEN LStrip(Tail(s), chars) ELSE s

RECURSIVE RStrip(_, _)
\* s.rstrip(chars)
RStrip(s, chars) ==
    IF s # <<>> /\ s[Len(s)] \in chars
    THEN RStrip(SubSeq(s, 1, Len(s) - 1), chars)
    ELSE s

\* s.strip(chars)
StripChars(s, chars) == RStrip(LStrip(s, chars), chars)

\* s.strip()
Strip(s) == StripChars(s, {" "})

\* s.replace(a, b) for one-character a and b
ReplaceChar(s, a, b) == [i \in DOMAIN s |-> IF s[i] = a THEN b ELSE s[i]]

\* a or b, on strings
OrElse(a, b) == IF a = <<>> THEN b ELSE a

RECURSIVE SubNonAlnum(_, _)
\* re.sub(r"[^a-z0-9]+", "-", s); inRun tells that the previous character was
\* already replaced
SubNonAlnum(s, inRun) ==
    IF s = <<>> THEN <<>>
    ELSE IF Head(s) \in Range(LowerChars) \cup Range(DigitChars)
         THEN <<Head(s)>> \o SubNonAlnum(Tail(s), FALSE)
         ELSE IF inRun THEN SubNonAlnum(Tail(s), TRUE)
              ELSE <<"-">> \o SubNonAlnum(Tail(s), TRUE)

\* sanitize_label
sanitize_label(label) ==
    LET l1 == OrElse(Strip(Lower(label)), <<"m","e","n","u">>)
        l2 == StripChars(SubNonAlnum(l1, FALSE), {"-"})
    IN  Take(IF l2 = <<>> THEN <<"m","e","n","u">> ELSE l2, 60)

(***************************************************************************)
(* urllib.parse on the URLs of the model: scheme://host/path, with no       *)
(* port, user, query or fragment.                                           *)
(***************************************************************************)
\* urlparse(url).scheme: empty when the string has no "://"
SchemeOf(url) ==
    LET i == Find(url, <<":","/","/">>, 0) IN IF i = 0 THEN <<>> ELSE SubSeq(url, 1, i - 1)

\* what follows "scheme://"
AfterScheme(url) ==
    LET i == Find(url, <<":","/","/">>, 0) IN IF i = 0 THEN <<>> ELSE Drop(url, i + 2)

\* urlparse(url).netloc
NetlocOf(url) ==
    LET rest == AfterScheme(url)
        j == Find(rest, <<"/">>, 0)
    IN  IF j = 0 THEN rest ELSE SubSeq(rest, 1, j - 1)

\* urlparse(url).hostname
HostOf(url) == Lower(NetlocOf(url))

\* urlparse(url).path: for a string without scheme the whole string is the path
PathOf(url) ==
    IF SchemeOf(url) = <<>> THEN url
    ELSE LET rest == AfterScheme(url)
             j == Find(rest, <<"/">>, 0)
         IN  IF j = 0 THEN <<>> ELSE Drop(rest, j - 1)

\* scheme://netloc
RootOf(url) == SchemeOf(url) \o <<":","/","/">> \o NetlocOf(url)

\* os.path.basename(path)
basename(path) == Drop(path, RFind(path, <<"/">>))

\* urljoin(base, href) for an absolute href, a root-relative href ("/x") and a
\* relative href ("x"), against an absolute base
urljoin(base, href) ==
    IF SchemeOf(href) # <<>> THEN href
    ELSE IF StartsWith(href, <<"/">>) THEN RootOf(base) \o href
    ELSE LET p == PathOf(base)
             dir == IF p = <<>> THEN <<"/">> ELSE SubSeq(p, 1, RFind(p, <<"/">>))
         IN  RootOf(base) \o dir \o href

\* normalize_url
normalize_url(url) ==
    IF url = <<>> THEN url
    ELSE IF SchemeOf(url) = <<>> THEN <<"h","t","t","p","s",":","/","/">> \o url
    ELSE url

(***************************************************************************)
(* The keyword tables of the source.                                       *)
(***************************************************************************)
POSITIVE_MENU_HINTS ==
    { <<"m","e","n","u">>, <<"m","e","n","u","s">>, <<"o","u","r"," ","m","e","n","u">>, <<"f","o","o","d">>, <<"o","r","d","e","r">>, <<"o","r","d","e","r"," ","o","n","l","i","n","e">>,
      <<"l","u","n","c","h">>, <<"d","i","n","n","e","r">>, <<"b","r","u","n","c","h">>, <<"d","r","i","n","k","s">>, <<"b","e","v","e","r","a","g","e","s">>, <<"h","a","p","p","y"," ","h","o","u","r">> }

NEGATIVE_HINTS ==
    { <<"r","e","s","e","r","v","a","t","i","o","n","s">>, <<"r","e","s","e","r","v","a","t","i","o","n">>, <<"g","i","f","t">>, <<"c","a","r","e","e","r","s">>, <<"j","o","b","s">>, <<"p","r","e","s","s">>,
      <<"g","a","l","l","e","r","y">>, <<"p","h","o","t","o","s">>, <<"c","o","n","t","a","c","t">>, <<"p","r","i","v","a","c","y">>, <<"t","e","r","m","s">>, <<"a","c","c","e","s","s","i","b","i","l","i","t","y">> }

EXTERNAL_MENU_HOSTS ==
    { <<"t","o","a","s","t","t","a","b",".","c","o","m">>, <<"c","l","o","v","e","r",".","c","o","m">>, <<"s","q","u","a","r","e",".","s","i","t","e">>, <<"u","b","e","r","e","a","t","s",".","c","o","m">>,
      <<"d","o","o","r","d","a","s","h",".","c","o","m">>, <<"g","r","u","b","h","u","b",".","c","o","m">>, <<"o","p","e","n","t","a","b","l","e",".","c","o","m">>, <<"r","e","s","y",".","c","o","m">>,
      <<"t","o","c","k",".","c","o","m">>, <<"o","l","o",".","c","o","m">> }

\* the head of COMMON_MENU_PATHS, in the order of the source
CommonMenuPathsHead ==
    << <<"/","m","e","n","u">>, <<"/","m","e","n","u","s">>, <<"/","o","u","r","-","m","e","n","u">>, <<"/","o","u","r","-","m","e","n","u","s">>, <<"/","f","o","o","d","-","m","e","n","u">> >>

COMMON_MENU_PATHS ==
    SubSeq(CommonMenuPathsHead, 1,
           IF MaxGuessed < Len(CommonMenuPathsHead)
           THEN MaxGuessed ELSE Len(CommonMenuPathsHead))

\* the href patterns that earn the strong-path bonus of score_link
StrongPathHints ==
    { <<"/","m","e","n","u">>, <<"/","m","e","n","u","s">>, <<"f","o","o","d","-","m","e","n","u">>, <<"o","u","r","-","m","e","n","u">>, <<"m","e","n","u",".","h","t","m","l">> }

\* the title substrings that mark an error page
ErrorTitleHints == { <<"4","0","4">>, <<"p","a","g","e"," ","n","o","t"," ","f","o","u","n","d">>, <<"n","o","t"," ","f","o","u","n","d">>, <<"e","r","r","o","r">> }

(***************************************************************************)
(* Link Scorer and Page Classifier.                                        *)
(***************************************************************************)
\* host_matches_external
host_matches_external(host) ==
    LET h == Lower(host)
    IN  \E dom \in EXTERNAL_MENU_HOSTS : h = dom \/ EndsWith(h, <<".">> \o dom)

\* score_link
\* score_link without "or ''": strip() of a missing argument raises, which the
\* result NoneInt stands for
mScoreLinkNoneRaises(text, href) ==
    IF text = NoneStr \/ href = NoneStr THEN NoneInt
    ELSE LET t == Lower(Strip(text))
             h == Lower(Strip(href))
             pos == {kw \in POSITIVE_MENU_HINTS : Contains(t, kw) \/ Contains(h, kw)}
             neg == {bad \in NEGATIVE_HINTS : Contains(t, bad) \/ Contains(h, bad)}
         IN    3 * Cardinality({kw \in pos : Contains(kw, <<"m","e","n","u">>)})
             + 2 * Cardinality({kw \in pos : ~Contains(kw, <<"m","e","n","u">>)})
             - 3 * Cardinality(neg)
             + (IF \E p \in StrongPathHints : Contains(h, p) THEN 3 ELSE 0)
             + (IF EndsWith(h, <<".","p","d","f">>) THEN 4 ELSE 0)

\* score_link with the bonuses of the href only, the keyword tables left out
mScoreLinkPathOnly(text, href) ==
    LET h == Lower(Strip(OrElse(IF href = NoneStr THEN <<>> ELSE href, <<>>)))
    IN    (IF \E p \in StrongPathHints : Contains(h, p) THEN 3 ELSE 0)
        + (IF EndsWith(h, <<".","p","d","f">>) THEN 4 ELSE 0)

score_link(text, href) ==
    LET t == Lower(Strip(OrElse(IF text = NoneStr THEN <<>> ELSE text, <<>>)))
        h == Lower(Strip(OrElse(IF href = NoneStr THEN <<>> ELSE href, <<>>)))
        pos == {kw \in POSITIVE_MENU_HINTS : Contains(t, kw) \/ Contains(h, kw)}
        neg == {bad \in NEGATIVE_HINTS : Contains(t, bad) \/ Contains(h, bad)}
    IN    3 * Cardinality({kw \in pos : Contains(kw, <<"m","e","n","u">>)})
        + 2 * Cardinality({kw \in pos : ~Contains(kw, <<"m","e","n","u">>)})
        - 3 * Cardinality(neg)
        + (IF \E p \in StrongPathHints : Contains(h, p) THEN 3 ELSE 0)
        + (IF EndsWith(h, <<".","p","d","f">>) THEN 4 ELSE 0)

\* is_menu_like with the third tier asking for exactly one price token
mIsMenuLikeOnePrice(html) ==
    \/ html.price_hits >= 3
    \/ html.currency_hits >= 2
    \/ (html.price_hits = 1 /\ html.cat_hits >= 3)

\* is_menu_like, on the counts taken from the visible text
is_menu_like(html) ==
    \/ html.price_hits >= 3
    \/ html.currency_hits >= 2
    \/ (html.price_hits >= 1 /\ html.cat_hits >= 3)

\* looks_like_error_page without the status test
mLooksLikeErrorNoStatus(html, status_code) ==
    \/ \E x \in ErrorTitleHints : Contains(Lower(Strip(html.title)), x)
    \/ (Contains(Lower(html.meta_robots), <<"n","o","i","n","d","e","x">>) /\ html.missing_phrase)

\* looks_like_error_page
looks_like_error_page(html, status_code) ==
    \/ (status_code # NoneInt /\ status_code >= 400)
    \/ \E x \in ErrorTitleHints : Contains(Lower(Strip(html.title)), x)
    \/ (Contains(Lower(html.meta_robots), <<"n","o","i","n","d","e","x">>) /\ html.missing_phrase)

(***************************************************************************)
(* Candidate Generator.                                                    *)
(***************************************************************************)
MenuPage(url, label, score, guessed) ==
    [url |-> url, label |-> label, score |-> score, guessed |-> guessed]

\* Python dict assignment d[mp.url] = mp on a dict kept as the sequence of its
\* values in insertion order: a present key keeps its place
DictPut(d, mp) ==
    IF \E i \in DOMAIN d : d[i].url = mp.url
    THEN [i \in DOMAIN d |-> IF d[i].url = mp.url THEN mp ELSE d[i]]
    ELSE Append(d, mp)

DictHas(d, url) == \E i \in DOMAIN d : d[i].url = url

DictGet(d, url) == d[CHOOSE i \in DOMAIN d : d[i].url = url]

\* the anchor loop without the bonus for external platform hosts
mAnchorStepNoBonus(candidates, base_url, a) ==
    IF a.href = <<>> THEN candidates
    ELSE LET abs_url == urljoin(base_url, a.href)
             text == Take(Strip(a.text), 200)
             s == score_link(text, a.href)
             mp == MenuPage(abs_url, Take(Lower(OrElse(text, <<"m","e","n","u">>)), 60), s, FALSE)
         IN  IF s <= 0 THEN candidates
             ELSE IF ~DictHas(candidates, abs_url)
                     \/ DictGet(candidates, abs_url).score < s
                  THEN DictPut(candidates, mp)
                  ELSE candidates

\* the body of the anchor loop of discover_menu_links for one anchor
AnchorStep(candidates, base_url, a) ==
    IF a.href = <<>> THEN candidates
    ELSE LET abs_url == urljoin(base_url, a.href)
             text == Take(Strip(a.text), 200)
             s0 == score_link(text, a.href)
             s == IF host_matches_external(HostOf(abs_url)) THEN s0 + 6 ELSE s0
             mp == MenuPage(abs_url, Take(Lower(OrElse(text, <<"m","e","n","u">>)), 60), s, FALSE)
         IN  IF s <= 0 THEN candidates
             ELSE IF ~DictHas(candidates, abs_url)
                     \/ DictGet(candidates, abs_url).score < s
                  THEN DictPut(candidates, mp)
                  ELSE candidates

RECURSIVE AnchorLoop(_, _, _)
AnchorLoop(candidates, base_url, anchors) ==
    IF anchors = <<>> THEN candidates
    ELSE AnchorLoop(AnchorStep(candidates, base_url, Head(anchors)),
                    base_url, Tail(anchors))

\* the homepage injected as its own candidate when it looks menu-like
InjectHomepage(candidates, base_url, html) ==
    IF is_menu_like(html)
    THEN DictPut(candidates, MenuPage(base_url, <<"m","e","n","u">>, 5, FALSE))
    ELSE candidates

RECURSIVE SortByScoreDesc(_)
\* sorted(..., key=score, reverse=True): stable, equal scores keep their order
SortByScoreDesc(s) ==
    IF s = <<>> THEN <<>>
    ELSE LET rest == SortByScoreDesc(SubSeq(s, 1, Len(s) - 1))
             x == s[Len(s)]
             k == Cardinality({i \in DOMAIN rest : rest[i].score >= x.score})
         IN  SubSeq(rest, 1, k) \o <<x>> \o SubSeq(rest, k + 1, Len(rest))

\* discover_menu_links
discover_menu_links(base_url, html) ==
    Take(SortByScoreDesc(
            InjectHomepage(AnchorLoop(<<>>, base_url, html.anchors), base_url, html)),
         12)

\* build_guessed_menu_pages
build_guessed_menu_pages(base_url) ==
    [i \in DOMAIN COMMON_MENU_PATHS |->
        LET path == COMMON_MENU_PATHS[i]
            url == urljoin(RootOf(base_url) \o <<"/">>, LStrip(path, {"/"}))
            label == OrElse(ReplaceChar(StripChars(path, {"/"}), "-", " "), <<"m","e","n","u">>)
        IN  MenuPage(url, Take(label, 60), 8, TRUE)]

\* every guessed candidate is appended, also one whose URL is link-derived
mCombinedNoDedup(base_url, html) ==
    discover_menu_links(base_url, html) \o build_guessed_menu_pages(base_url)

\* the guessed candidates are put before the link-derived ones
mCombinedGuessedFirst(base_url, html) ==
    LET candidates == discover_menu_links(base_url, html)
        guessed == build_guessed_menu_pages(base_url)
    IN  SelectSeq(guessed, LAMBDA mp : ~DictHas(candidates, mp.url)) \o candidates

\* the candidate list of process_restaurant: the link-derived candidates, then
\* the guessed ones whose URL is not among them
CombinedCandidates(base_url, html) ==
    LET candidates == discover_menu_links(base_url, html)
        guessed == build_guessed_menu_pages(base_url)
    IN  candidates \o SelectSeq(guessed, LAMBDA mp : ~DictHas(candidates, mp.url))

(***************************************************************************)
(* Robots policy.  A robots.txt body is the sequence of its groups, each   *)
(* the user agent it names and the path prefixes it disallows; a parsed    *)
(* policy (RobotFileParser) is the set of prefixes disallowed for this     *)
(* crawler.                                                                *)
(***************************************************************************)
\* USER_AGENT.split("/")[0].lower(), the name the parser matches agents against
AgentName == <<"m","o","z","i","l","l","a">>

\* RobotFileParser.parse and the entry can_fetch consults: the first group
\* naming this crawler, else the first "*" group, else nothing is disallowed
robots_parse(lines) ==
    LET named == {j \in DOMAIN lines :
                    lines[j].agent # <<"*">> /\ Contains(AgentName, Lower(lines[j].agent))}
        star == {j \in DOMAIN lines : lines[j].agent = <<"*">>}
        First(js) == CHOOSE j \in js : \A k \in js : j <= k
    IN  IF named # {} THEN lines[First(named)].disallow
        ELSE IF star # {} THEN lines[First(star)].disallow
        ELSE {}

\* the policy parsed from the body whatever the status
mRobotsPolicyAnyStatus(resp) ==
    IF resp.raises THEN robots_parse(<<>>) ELSE robots_parse(resp.lines)

\* the policy fetch_robots stores for a robots.txt response (or a raised request)
robots_policy(resp) ==
    IF resp.raises THEN robots_parse(<<>>)
    ELSE IF resp.status_code = 200 THEN robots_parse(resp.lines)
    ELSE robots_parse(<<>>)

\* RobotFileParser.can_fetch(USER_AGENT, url)
can_fetch(rp, url) ==
    LET p == OrElse(PathOf(url), <<"/">>)
    IN  ~\E d \in rp : StartsWith(p, d)

\* the robots.txt URL fetch_robots requests for a URL
robots_url(url) == SchemeOf(url) \o <<":","/","/">> \o HostOf(url) \o <<"/","r","o","b","o","t","s",".","t","x","t">>

(***************************************************************************)
(* HTTP responses.                                                          *)
(***************************************************************************)
\* header.split(";")[0].strip().lower()
MediaType(header) ==
    LET i == Find(header, <<";">>, 0)
    IN  Lower(Strip(IF i = 0 THEN header ELSE SubSeq(header, 1, i - 1)))

\* fetch_text: <<text, content type, status>>
fetch_text(resp) ==
    IF resp.raises THEN <<None, NoneStr, NoneInt>>
    ELSE LET ctype == MediaType(resp.content_type)
         IN  IF Contains(ctype, <<"t","e","x","t","/","h","t","m","l">>)
                \/ ctype = <<"a","p","p","l","i","c","a","t","i","o","n","/","x","h","t","m","l","+","x","m","l">> \/ ctype = <<>>
             THEN <<resp.html, OrElse(ctype, <<"t","e","x","t","/","h","t","m","l">>), resp.status_code>>
             ELSE <<None, ctype, resp.status_code>>

\* the PDF test with the exact content type only
mIsPdfExact(ctype2) == ctype2 = <<"a","p","p","l","i","c","a","t","i","o","n","/","p","d","f">>

\* the PDF test of process_restaurant on the content type fetch_text returned
IsPdf(ctype2) ==
    ctype2 # NoneStr /\ (ctype2 = <<"a","p","p","l","i","c","a","t","i","o","n","/","p","d","f">> \/ (ctype2 # <<>> /\ Contains(ctype2, <<"p","d","f">>)))

(***************************************************************************)
(* Persistence layer.  The output root maps a directory name to its files   *)
(* (name -> "complete" or "partial", the latter left by a write that raised *)
(* after open() created or truncated the file) and its metadata.json        *)
(* (None, Broken for truncated JSON, or the record).                        *)
(***************************************************************************)
EmptyFn == [x \in {} |-> None]

\* a metadata.json that json.load rejects
Broken == [broken |-> TRUE]

EmptyDir == [files |-> EmptyFn, meta |-> None]

\* how opening and writing a file can end
IOOutcomes == {"ok", "open_failed", "write_failed"}

\* restaurant_output_dir: slug_unique, which also names the directory
restaurant_output_dir(r) ==
    IF r.uuid # <<>> THEN r.slug \o <<"-","-">> \o Take(r.uuid, 8) ELSE r.slug

\* ensure_dir(out_dir)
ensure_dir(d, out_dir) ==
    IF out_dir \in DOMAIN d THEN d ELSE (out_dir :> EmptyDir) @@ d

\* with open(save_path, "w") as f: f.write(...)
write_file(d, out_dir, filename, io) ==
    IF io = "open_failed" THEN d
    ELSE [d EXCEPT ![out_dir].files =
            (filename :> (IF io = "ok" THEN "complete" ELSE "partial")) @@ @]

\* metadata.json as existing_menu_info can tell it apart: of a record without
\* saved files it reads nothing but saved_files, so the error tags of such a
\* record are not kept
Readable(record) ==
    IF record.saved_files = <<>> THEN [record EXCEPT !.errors = <<>>] ELSE record

\* with open(meta_path, "w") as f: json.dump(record, f)
write_meta(d, out_dir, record, io) ==
    IF io = "open_failed" THEN d
    ELSE [d EXCEPT ![out_dir].meta = IF io = "ok" THEN Readable(record) ELSE Broken]

\* os.path.relpath(os.path.join(out_dir, filename))
FilePath(out_dir, filename) == out_dir \o <<"/">> \o filename

\* the extension test without ".pdf"
mIsMenuFileHtmlOnly(fn) ==
    LET l == Lower(fn)
    IN  EndsWith(l, <<".","h","t","m","l">>) \/ EndsWith(l, <<".","h","t","m">>)

\* the extension test of the directory scan
IsMenuFile(fn) ==
    LET l == Lower(fn)
    IN  EndsWith(l, <<".","h","t","m","l">>) \/ EndsWith(l, <<".","h","t","m">>) \/ EndsWith(l, <<".","p","d","f">>)

\* the orders in which os.listdir can return the names of a directory
Listings(names) ==
    {o \in [1..Cardinality(names) -> names] : \A n \in names : \E k \in DOMAIN o : o[k] = n}

ScanEntry(out_dir, fn) ==
    [url |-> NoneStr, file |-> FilePath(out_dir, fn), status |-> NoneInt,
     content_type |-> NoneStr, is_menu_like |-> TRUE]

\* existing_menu_info without the directory scan
mExistingMetaOnly(d, r, listing) ==
    LET out_dir == restaurant_output_dir(r)
    IN  IF out_dir \notin DOMAIN d THEN None
        ELSE LET meta == d[out_dir].meta
             IN  IF meta # None /\ meta # Broken /\ meta.saved_files # <<>>
                 THEN [uuid |-> meta.uuid, slug |-> out_dir, website |-> meta.website,
                       found |-> TRUE, saved_files |-> meta.saved_files,
                       errors |-> Append(meta.errors, <<"skipped_existing_menu">>),
                       skipped |-> TRUE]
                 ELSE None

\* existing_menu_info; listing is the order os.listdir returns
existing_menu_info(d, r, listing) ==
    LET out_dir == restaurant_output_dir(r)
    IN  IF out_dir \notin DOMAIN d THEN None
        ELSE LET meta == d[out_dir].meta
                 scanned == SelectSeq(listing, IsMenuFile)
                 saved_files == [k \in DOMAIN scanned |-> ScanEntry(out_dir, scanned[k])]
             IN  IF meta # None /\ meta # Broken /\ meta.saved_files # <<>>
                 THEN [uuid |-> meta.uuid, slug |-> out_dir, website |-> meta.website,
                       found |-> TRUE, saved_files |-> meta.saved_files,
                       errors |-> Append(meta.errors, <<"skipped_existing_menu">>),
                       skipped |-> TRUE]
                 ELSE IF saved_files # <<>>
                 THEN [uuid |-> r.uuid, slug |-> out_dir, website |-> r.website,
                       found |-> TRUE, saved_files |-> saved_files,
                       errors |-> << <<"skipped_existing_menu_no_meta">> >>,
                       skipped |-> TRUE]
                 ELSE None

\* the metadata record process_restaurant writes
MetaRecord(r, base_url, result) ==
    [uuid |-> r.uuid, website |-> base_url, found |-> result.found,
     saved_files |-> result.saved_files, errors |-> result.errors]

(***************************************************************************)
(* Site Processor: the pure parts of process_restaurant.                    *)
(***************************************************************************)
\* the result dict process_restaurant starts from
NewResult(r) ==
    [uuid |-> r.uuid, slug |-> r.slug, website |-> r.website, found |-> FALSE,
     saved_files |-> <<>>, errors |-> <<>>, skipped |-> FALSE]

AddError(result, tag) == [result EXCEPT !.errors = Append(@, tag)]

\* the file label: the sanitized link label, or the URL's last path segment
\* when the label is just "menu"
FileLabel(mp) ==
    LET label == sanitize_label(OrElse(mp.label, <<"m","e","n","u">>))
        tail == sanitize_label(OrElse(basename(PathOf(mp.url)), <<"m","e","n","u">>))
    IN  IF label = <<"m","e","n","u">> /\ tail # <<>> /\ tail # <<"m","e","n","u">> THEN tail ELSE label

\* the URL path "strongly implies a menu"
PathImpliesMenu(url) ==
    LET path == Lower(PathOf(url))
        base_name == basename(path)
    IN  \/ EndsWith(path, <<"/","m","e","n","u">>) \/ EndsWith(path, <<"/","m","e","n","u","s">>)
        \/ base_name \in {<<"m","e","n","u">>, <<"m","e","n","u","s">>}
        \/ StartsWith(base_name, <<"m","e","n","u","-">>) \/ StartsWith(base_name, <<"m","e","n","u","s","-">>)

\* the acceptance rule without the test for guessed candidates
mAcceptedPathOnly(mp, body) ==
    IF ~is_menu_like(body) /\ ~host_matches_external(HostOf(mp.url))
    THEN PathImpliesMenu(mp.url)
    ELSE TRUE

\* whether a fetched non-PDF, non-error page of a candidate is kept
Accepted(mp, body) ==
    IF ~is_menu_like(body) /\ ~host_matches_external(HostOf(mp.url))
    THEN ~mp.guessed /\ PathImpliesMenu(mp.url)
    ELSE TRUE

\* mp.is_menu_like recorded as the classifier gave it, the host left aside
mRecordedAsClassified(mp, body) == is_menu_like(body)

\* mp.is_menu_like as recorded for a kept page
RecordedMenuLike(mp, body) ==
    IF host_matches_external(HostOf(mp.url)) THEN TRUE ELSE is_menu_like(body)

\* the budget test, off by one
mBudgetReachedLate(saved, max_pages) == saved > max_pages

\* the budget test at the head of the candidate loop
BudgetReached(saved, max_pages) == saved >= max_pages

SavedEntry(url, file, status, ctype, menu_like) ==
    [url |-> url, file |-> file, status |-> status, content_type |-> ctype,
     is_menu_like |-> menu_like]

(***************************************************************************)
(* Inputs: the restaurant list, the homepages, the responses of the web     *)
(* and the robots.txt files the model draws from.                           *)
(***************************************************************************)
Restaurant(uuid, slug, website) == [uuid |-> uuid, slug |-> slug, website |-> website]

RestA == Restaurant(<<"0","a","1","b","2","c","3","d","-","1">>, <<"a">>, <<"h","t","t","p","s",":","/","/","a",".","c","o","m">>)
\* another entry of the same name and website, its identifier differing from
\* RestA's after the eighth character
RestD == Restaurant(<<"0","a","1","b","2","c","3","d","-","2">>, <<"a">>, <<"h","t","t","p","s",":","/","/","a",".","c","o","m">>)
\* a site hosted on an ordering platform, listed without scheme
RestB == Restaurant(<<"2">>, <<"b">>, <<"x",".","o","l","o",".","c","o","m">>)
\* a restaurant without website
RestC == Restaurant(<<"3">>, <<"c">>, NoneStr)

RestaurantPool == <<RestA, RestB, RestC>>

\* the input lists: the non-empty selections of the pool, in its order, and
\* the list of the two entries of the same name and website
RestaurantLists ==
    {l \in UNION {[1..n -> Range(RestaurantPool)] : n \in 1..MaxRestaurants} :
        \A i, j \in DOMAIN l : i < j =>
            \E a, b \in DOMAIN RestaurantPool :
                a < b /\ RestaurantPool[a] = l[i] /\ RestaurantPool[b] = l[j]}
    \cup {<<RestA, RestD>>}

Anchor(href, text) == [href |-> href, text |-> text]

Doc(anchors, title, price_hits) ==
    [anchors |-> anchors, title |-> title, meta_robots |-> <<>>,
     missing_phrase |-> FALSE, price_hits |-> price_hits, currency_hits |-> 0,
     cat_hits |-> 0]

\* a page with one link to the site's menu
DocLinkMenu == Doc(<<Anchor(<<"/","m","e","n","u">>, <<"O","u","r"," ","M","e","n","u">>)>>, <<"H","o","m","e">>, 0)
\* a page with one link to an ordering platform
DocLinkOrder == Doc(<<Anchor(<<"h","t","t","p","s",":","/","/","x",".","o","l","o",".","c","o","m","/","r">>, <<"O","r","d","e","r">>)>>, <<"H","o","m","e">>, 0)
\* a page that lists prices and links to the site's menu
DocMenuWithLink == Doc(<<Anchor(<<"/","m","e","n","u">>, <<"O","u","r"," ","M","e","n","u">>)>>, <<"H","o","m","e">>, 3)
\* a page that lists prices
DocPrices == Doc(<<>>, <<"M","e","n","u">>, 3)
\* a page without links or prices
DocPlain == Doc(<<>>, <<"A","b","o","u","t">>, 0)
\* a custom error page served with status 200
DocNotFound == Doc(<<>>, <<"4","0","4"," ","N","o","t"," ","F","o","u","n","d">>, 3)

Response(content_type, status_code, html) ==
    [raises |-> FALSE, content_type |-> content_type, status_code |-> status_code,
     html |-> html]

RaisedResponse ==
    [raises |-> TRUE, content_type |-> <<>>, status_code |-> 0, html |-> DocPlain]

HtmlType == <<"t","e","x","t","/","h","t","m","l",";"," ","c","h","a","r","s","e","t","=","u","t","f","-","8">>

\* what the homepage request can answer
HomeResponses ==
    { RaisedResponse,
      Response(<<"a","p","p","l","i","c","a","t","i","o","n","/","p","d","f">>, 200, DocPlain),
      Response(HtmlType, 200, DocLinkMenu),
      Response(HtmlType, 200, DocLinkOrder),
      Response(HtmlType, 200, DocMenuWithLink),
      Response(HtmlType, 200, DocPrices) }

\* what a candidate request can answer
PageResponses ==
    { RaisedResponse,
      Response(<<"a","p","p","l","i","c","a","t","i","o","n","/","p","d","f">>, 200, DocPlain),
      Response(<<"a","p","p","l","i","c","a","t","i","o","n","/","x","-","p","d","f">>, 404, DocPlain),
      Response(<<"i","m","a","g","e","/","p","n","g">>, 404, DocPlain),
      Response(HtmlType, 200, DocPrices),
      Response(HtmlType, 200, DocPlain),
      Response(HtmlType, 200, DocNotFound),
      Response(HtmlType, 404, DocPrices) }

RobotsResponse(status_code, lines) ==
    [raises |-> FALSE, status_code |-> status_code, lines |-> lines]

Group(agent, disallow) == [agent |-> agent, disallow |-> disallow]

\* what a robots.txt request can answer
RobotsResponses ==
    { [raises |-> TRUE, status_code |-> 0, lines |-> <<>>],
      RobotsResponse(404, <<Group(<<"*">>, {<<"/">>})>>),
      RobotsResponse(200, <<Group(<<"o","t","h","e","r","b","o","t">>, {<<"/">>}), Group(<<"*">>, {<<"/","m","e","n","u">>})>>),
      RobotsResponse(200, <<Group(<<"*">>, {<<"/">>})>>) }

\* how the second request for a PDF and the write of its content can end
PdfOutcomes == {"get_failed"} \cup IOOutcomes

\* the anchors a homepage handed to discover_menu_links is made of
AnchorPool ==
    { Anchor(<<"/","m","e","n","u">>, <<"M","e","n","u">>),
      Anchor(<<"/","m","e","n","u">>, <<"O","u","r"," ","M","e","n","u">>),
      Anchor(<<"h","t","t","p","s",":","/","/","a",".","c","o","m">>, <<"O","u","r"," ","M","e","n","u","s">>),
      Anchor(<<"h","t","t","p","s",":","/","/","x",".","o","l","o",".","c","o","m","/","r">>, <<"O","r","d","e","r">>),
      Anchor(<<"/","c","o","n","t","a","c","t">>, <<"C","o","n","t","a","c","t">>),
      Anchor(<<"h","t","t","p","s",":","/","/","x",".","o","l","o",".","c","o","m","/","c","o","n","t","a","c","t">>, <<"C","o","n","t","a","c","t"," ","/"," ","C","a","r","e","e","r","s">>),
      Anchor(<<"h","t","t","p","s",":","/","/","x",".","o","l","o",".","c","o","m","/","p","r","e","s","s">>, <<"P","r","e","s","s">>),
      Anchor(<<>>, <<"M","e","n","u">>) }

\* the homepages handed to discover_menu_links: up to MaxAnchors anchors, with
\* or without prices in the text
LinkDocs ==
    {Doc(as, <<"H","o","m","e">>, p) :
        as \in UNION {[1..n -> AnchorPool] : n \in 0..MaxAnchors}, p \in {0, 3}}

\* the largest count of price tokens, currency symbols and category keywords
\* in the texts handed to is_menu_like
MaxHits == 3

\* a text with the given counts of price tokens, currency symbols and
\* category keywords
CountDoc(p, c, k) ==
    [Doc(<<>>, <<"M","e","n","u">>, p) EXCEPT !.currency_hits = c, !.cat_hits = k]

\* the link texts and hrefs handed to score_link; NoneStr is a missing argument
ScoreTexts == {NoneStr, <<>>, <<" "," ">>, <<"O","u","r"," ","M","e","n","u">>, <<"L","u","n","c","h"," ","M","e","n","u">>, <<"C","o","n","t","a","c","t">>}

ScoreHrefs == {NoneStr, <<>>, <<"/","m","e","n","u">>, <<"/","f","i","l","e","s","/","M","e","n","u",".","P","D","F">>, <<"/","c","o","n","t","a","c","t">>}

\* what is scored between two calls with the same arguments
ScoreOthers == {<<<<"O","r","d","e","r"," ","O","n","l","i","n","e">>, <<"h","t","t","p","s",":","/","/","x",".","o","l","o",".","c","o","m","/","r">>>>, <<<<>>, <<>>>>}

(***************************************************************************)
(* State.                                                                   *)
(***************************************************************************)
VARIABLES
    restaurants,         \* run: the restaurants with a website, in input order
    max_pages_per_site,  \* run: the page budget
    concurrency,         \* run: the value the semaphore starts with
    run_no,              \* number of the current run against the output root
    run_state,           \* "gathering", "done" or "aborted"
    disk,                \* the output root: directory name -> directory
    summary,             \* scrape_results.json as this run wrote it, or None
    rp_cache,            \* host -> robots policy
    sem,                 \* free permits of the semaphore
    completed,           \* the progress counter
    results,             \* per worker: the SiteResult it returned, or None
    site,                \* per worker: position and locals of process_restaurant
    net,                 \* history: per worker, the requests issued in this run
    allowed,             \* history: per worker, the URLs a robots check allowed
    fetch_log,           \* history: per worker, the answered candidate requests
    prev,                \* history: per worker, how the previous run ended for it
    robots_log,          \* history: the hosts whose cached policy came from a
                         \* robots.txt request that raised or answered non-200
    home_log,            \* history: per worker, what its homepage request answered
    meta_io,             \* history: per worker, how its metadata write ended
    links,               \* discover_menu_links applied on its own: input and output
    pure                 \* score_link, is_menu_like applied on their own

vars == <<restaurants, max_pages_per_site, concurrency, run_no, run_state, disk,
          summary, rp_cache, sem, completed, results, site, net, allowed,
          fetch_log, prev, robots_log, home_log, meta_io, links, pure>>

Workers == DOMAIN restaurants

\* the locals of a worker that has not entered process_restaurant
QueuedSite ==
    [pc |-> "queued", base_url |-> <<>>, out_dir |-> <<>>, result |-> None,
     candidates |-> <<>>, idx |-> 0, seen_urls |-> {}, saved |-> 0,
     ctype2 |-> NoneStr, status2 |-> NoneInt]

\* run: the restaurants list after the website filter
Scheduled(all_restaurants) == SelectSeq(all_restaurants, LAMBDA r : r.website # NoneStr)

\* history: no answer to the homepage request yet
NoAnswer == [answered |-> FALSE]

\* the state run sets up before gathering the workers
StartRun(list, budget, conc) ==
    /\ restaurants' = list
    /\ max_pages_per_site' = budget
    /\ concurrency' = conc
    /\ run_state' = "gathering"
    /\ summary' = None
    /\ rp_cache' = EmptyFn
    /\ sem' = conc
    /\ completed' = 0
    /\ results' = [i \in DOMAIN list |-> None]
    /\ site' = [i \in DOMAIN list |-> QueuedSite]
    /\ net' = [i \in DOMAIN list |-> {}]
    /\ allowed' = [i \in DOMAIN list |-> {}]
    /\ fetch_log' = [i \in DOMAIN list |-> {}]
    /\ robots_log' = {}
    /\ home_log' = [i \in DOMAIN list |-> NoAnswer]
    /\ meta_io' = [i \in DOMAIN list |-> "none"]

\* the runs the model starts: one restaurant with any budget, or several with
\* budget 0
RunInputs ==
    {in \in [list : {Scheduled(l) : l \in RestaurantLists},
             budget : 0..MaxPages, conc : 1..MaxRestaurants] :
        /\ (Len(in.list) > 1 => in.budget = 0)
        /\ in.conc <= (IF Len(in.list) = 0 THEN 1 ELSE Len(in.list))}

NoLinks == [pc |-> "off", base_url |-> <<>>, html |-> DocPlain, out |-> <<>>,
            combined |-> <<>>]

NoPure == [pc |-> "off"]

Init ==
    /\ run_no = 1
    /\ disk = EmptyFn
    /\ summary = None
    /\ links = NoLinks
    /\ pure = NoPure
    /\ robots_log = {}
    /\ \E in \in RunInputs :
        /\ restaurants = in.list
        /\ max_pages_per_site = in.budget
        /\ concurrency = in.conc
        /\ run_state = "gathering"
        /\ rp_cache = EmptyFn
        /\ sem = in.conc
        /\ completed = 0
        /\ results = [i \in DOMAIN in.list |-> None]
        /\ site = [i \in DOMAIN in.list |-> QueuedSite]
        /\ net = [i \in DOMAIN in.list |-> {}]
        /\ allowed = [i \in DOMAIN in.list |-> {}]
        /\ fetch_log = [i \in DOMAIN in.list |-> {}]
        /\ prev = [i \in DOMAIN in.list |-> "none"]
        /\ meta_io = [i \in DOMAIN in.list |-> "none"]
        /\ home_log = [i \in DOMAIN in.list |-> NoAnswer]

(***************************************************************************)
(* How a step of a worker ends.                                             *)
(***************************************************************************)
\* process_restaurant goes on without a permit taken
mContinueNoAcquire(i, s, d, cache, reqs, oks, log) ==
    /\ site' = [site EXCEPT ![i] = s]
    /\ sem' = sem
    /\ disk' = d
    /\ rp_cache' = cache
    /\ net' = [net EXCEPT ![i] = @ \cup reqs]
    /\ allowed' = [allowed EXCEPT ![i] = @ \cup oks]
    /\ fetch_log' = [fetch_log EXCEPT ![i] = @ \cup log]
    /\ UNCHANGED <<restaurants, max_pages_per_site, concurrency, run_no, run_state,
                   summary, completed, results, prev, meta_io, links, pure>>

\* process_restaurant goes on (to its next await) with locals s; a worker that
\* was queued has taken a permit of the semaphore in this step
Continue(i, s, d, cache, reqs, oks, log) ==
    /\ site' = [site EXCEPT ![i] = s]
    /\ sem' = IF site[i].pc = "queued" THEN sem - 1 ELSE sem
    /\ disk' = d
    /\ rp_cache' = cache
    /\ net' = [net EXCEPT ![i] = @ \cup reqs]
    /\ allowed' = [allowed EXCEPT ![i] = @ \cup oks]
    /\ fetch_log' = [fetch_log EXCEPT ![i] = @ \cup log]
    /\ UNCHANGED <<restaurants, max_pages_per_site, concurrency, run_no, run_state,
                   summary, completed, results, prev, meta_io, links, pure>>

\* the count of a worker that finishes while the counter is not zero is lost
mReturnLostUpdate(i, res, d, cache, mio) ==
    /\ site' = [site EXCEPT ![i] = [QueuedSite EXCEPT !.pc = "finished"]]
    /\ results' = [results EXCEPT ![i] = res]
    /\ sem' = IF site[i].pc = "queued" THEN sem ELSE sem + 1
    /\ completed' = IF completed = 0 THEN 1 ELSE completed
    /\ disk' = d
    /\ rp_cache' = cache
    /\ meta_io' = [meta_io EXCEPT ![i] = mio]
    /\ UNCHANGED <<restaurants, max_pages_per_site, concurrency, run_no, run_state,
                   summary, net, allowed, fetch_log, prev, links, pure>>

\* process_restaurant returns res: the worker gives its permit back, counts the
\* restaurant under the progress lock and returns res to gather; mio tells how
\* the metadata write before the return ended ("none" when there was none)
Return(i, res, d, cache, mio) ==
    /\ site' = [site EXCEPT ![i] = [QueuedSite EXCEPT !.pc = "finished"]]
    /\ results' = [results EXCEPT ![i] = res]
    /\ sem' = IF site[i].pc = "queued" THEN sem ELSE sem + 1
    /\ completed' = completed + 1
    /\ disk' = d
    /\ rp_cache' = cache
    /\ meta_io' = [meta_io EXCEPT ![i] = mio]
    /\ UNCHANGED <<restaurants, max_pages_per_site, concurrency, run_no, run_state,
                   summary, net, allowed, fetch_log, prev, links, pure>>

\* process_restaurant raises: the worker gives its permit back and its task
\* ends with the exception
Raise(i) ==
    /\ site' = [site EXCEPT ![i] = [QueuedSite EXCEPT !.pc = "raised"]]
    /\ sem' = IF site[i].pc = "queued" THEN sem ELSE sem + 1
    /\ UNCHANGED <<restaurants, max_pages_per_site, concurrency, run_no, run_state,
                   disk, summary, rp_cache, completed, results, net, allowed,
                   fetch_log, prev, meta_io, links, pure>>

(***************************************************************************)
(* process_restaurant, one action per stretch of code between two awaits.   *)
(***************************************************************************)
\* a blocked homepage is tagged and fetched all the same
mAfterHomeRobotsGoesOn(i, s, d, cache) ==
    IF ~can_fetch(cache[HostOf(s.base_url)], s.base_url)
    THEN Continue(i, [s EXCEPT !.pc = "fetch_home",
                               !.result = AddError(@, <<"blocked_by_robots_home">>)],
                  d, cache, {<<"page", s.base_url>>}, {}, {})
    ELSE Continue(i, [s EXCEPT !.pc = "fetch_home"], d, cache,
                  {<<"page", s.base_url>>}, {s.base_url}, {})

\* after the robots policy of the homepage is known: blocked, or fetch it
AfterHomeRobots(i, s, d, cache) ==
    IF ~can_fetch(cache[HostOf(s.base_url)], s.base_url)
    THEN LET result == AddError(s.result, <<"blocked_by_robots_home">>)
         IN  \E io \in IOOutcomes :
             Return(i, result,
                    write_meta(d, s.out_dir,
                               [MetaRecord(restaurants[i], s.base_url, result)
                                  EXCEPT !.found = FALSE, !.saved_files = <<>>], io),
                    cache, io)
    ELSE Continue(i, [s EXCEPT !.pc = "fetch_home"], d, cache,
                  {<<"page", s.base_url>>}, {s.base_url}, {})

\* the worker takes a permit and runs process_restaurant up to its first await
Start(i) ==
    /\ run_state = "gathering"
    /\ site[i].pc = "queued"
    /\ sem > 0
    /\ \A j \in Workers : j < i => site[j].pc # "queued"
    /\ UNCHANGED <<robots_log, home_log>>
    /\ LET r == restaurants[i]
           out_dir == restaurant_output_dir(r)
           names == IF out_dir \in DOMAIN disk THEN DOMAIN disk[out_dir].files ELSE {}
       IN  \E listing \in Listings(names) :
             LET existing == existing_menu_info(disk, r, listing)
                 base_url == normalize_url(r.website)
                 s == [QueuedSite EXCEPT !.base_url = base_url, !.out_dir = out_dir,
                                         !.result = NewResult(r)]
                 d == ensure_dir(disk, out_dir)
             IN  IF existing # None THEN Return(i, existing, disk, rp_cache, "none")
                 ELSE IF r.website = NoneStr
                 THEN Return(i, AddError(NewResult(r), <<"no_website">>), disk, rp_cache,
                             "none")
                 ELSE \E mkdir_ok \in (IF out_dir \in DOMAIN disk THEN {TRUE} ELSE BOOLEAN) :
                        IF ~mkdir_ok THEN Raise(i)
                        ELSE IF HostOf(base_url) \in DOMAIN rp_cache
                        THEN AfterHomeRobots(i, s, d, rp_cache)
                        ELSE Continue(i, [s EXCEPT !.pc = "robots_home"], d, rp_cache,
                                      {<<"robots", robots_url(base_url)>>}, {}, {})

\* history: whether the policy now cached for host came from a failed request
LogRobots(log, host, resp) ==
    IF resp.raises \/ resp.status_code # 200 THEN log \cup {host} ELSE log \ {host}

\* the robots.txt request for the homepage's host answers
RobotsHomeResp(i) ==
    /\ run_state = "gathering"
    /\ site[i].pc = "robots_home"
    /\ \E resp \in RobotsResponses :
         LET s == site[i]
             cache == (HostOf(s.base_url) :> robots_policy(resp)) @@ rp_cache
         IN  /\ robots_log' = LogRobots(robots_log, HostOf(s.base_url), resp)
             /\ UNCHANGED home_log
             /\ AfterHomeRobots(i, s, disk, cache)

\* the homepage request answers: unavailable, or the candidates are built
HomeResp(i) ==
    /\ run_state = "gathering"
    /\ site[i].pc = "fetch_home"
    /\ UNCHANGED robots_log
    /\ \E resp \in HomeResponses :
         LET s == site[i]
             got == fetch_text(resp)
             html == got[1]
         IN  /\ home_log' = [home_log EXCEPT ![i] =
                                [answered |-> TRUE, failed |-> html = None,
                                 ctype |-> got[2], status |-> got[3]]]
             /\ IF html = None
                THEN LET result == AddError(s.result,
                                       <<"homepage_unavailable", got[3], got[2]>>)
                     IN  \E io \in IOOutcomes :
                         Return(i, result,
                                write_meta(disk, s.out_dir,
                                    [MetaRecord(restaurants[i], s.base_url, result)
                                       EXCEPT !.found = FALSE, !.saved_files = <<>>], io),
                                rp_cache, io)
                ELSE Continue(i, [s EXCEPT !.pc = "loop",
                                           !.candidates = CombinedCandidates(s.base_url, html),
                                           !.idx = 1],
                              disk, rp_cache, {}, {}, {})

\* the candidate loop moves on to the next candidate
NextCandidate(s) == [s EXCEPT !.pc = "loop", !.idx = @ + 1, !.ctype2 = NoneStr,
                              !.status2 = NoneInt]

\* the candidate is fetched without asking the policy
mAfterCandRobotsNoCheck(i, s, cache, reqs) ==
    Continue(i, [s EXCEPT !.pc = "cand_fetch"], disk, cache,
             reqs \cup {<<"page", s.candidates[s.idx].url>>}, {}, {})

\* a candidate the policy disallows ends the site
mAfterCandRobotsFatal(i, s, cache, reqs) ==
    LET mp == s.candidates[s.idx]
    IN  IF ~can_fetch(cache[HostOf(mp.url)], mp.url)
        THEN Return(i, AddError(s.result, <<"blocked_by_robots", mp.url>>), disk, cache,
                    "none")
        ELSE Continue(i, [s EXCEPT !.pc = "cand_fetch"], disk, cache,
                      reqs \cup {<<"page", mp.url>>}, {mp.url}, {})

\* after the robots policy of a candidate's host is known: skip it, or fetch it
AfterCandRobots(i, s, cache, reqs) ==
    LET mp == s.candidates[s.idx]
    IN  IF ~can_fetch(cache[HostOf(mp.url)], mp.url)
        THEN Continue(i, NextCandidate([s EXCEPT !.result =
                            AddError(@, <<"blocked_by_robots", mp.url>>)]),
                      disk, cache, reqs, {}, {})
        ELSE Continue(i, [s EXCEPT !.pc = "cand_fetch"], disk, cache,
                      reqs \cup {<<"page", mp.url>>}, {mp.url}, {})

\* the head of the candidate loop; when the loop ends, found is set, the
\* metadata record is written and the result returned
LoopHead(i) ==
    /\ run_state = "gathering"
    /\ site[i].pc = "loop"
    /\ UNCHANGED <<robots_log, home_log>>
    /\ LET s == site[i]
         IN  IF BudgetReached(s.saved, max_pages_per_site) \/ s.idx > Len(s.candidates)
             THEN LET result == [s.result EXCEPT !.found = s.saved > 0]
                  IN  \E io \in IOOutcomes :
                      Return(i, IF io = "ok" THEN result
                                ELSE AddError(result, <<"meta_write_failed", "OSError">>),
                             write_meta(disk, s.out_dir,
                                        MetaRecord(restaurants[i], s.base_url, result), io),
                             rp_cache, io)
             ELSE LET mp == s.candidates[s.idx]
                      s1 == [s EXCEPT !.seen_urls = @ \cup {mp.url}]
                  IN  IF mp.url \in s.seen_urls
                      THEN Continue(i, NextCandidate(s), disk, rp_cache, {}, {}, {})
                      ELSE IF HostOf(mp.url) \in DOMAIN rp_cache
                      THEN AfterCandRobots(i, s1, rp_cache, {})
                      ELSE Continue(i, [s1 EXCEPT !.pc = "cand_robots"], disk, rp_cache,
                                    {<<"robots", robots_url(mp.url)>>}, {}, {})

\* the robots.txt request for a candidate's host answers
CandRobotsResp(i) ==
    /\ run_state = "gathering"
    /\ site[i].pc = "cand_robots"
    /\ \E resp \in RobotsResponses :
         LET s == site[i]
             mp == s.candidates[s.idx]
         IN  /\ robots_log' = LogRobots(robots_log, HostOf(mp.url), resp)
             /\ UNCHANGED home_log
             /\ AfterCandRobots(i, s, (HostOf(mp.url) :> robots_policy(resp)) @@ rp_cache,
                                {})

\* a kept page is recorded whether or not its write succeeded
mSavePageRecordFirst(s, mp, body, ctype2, status2, io) ==
    LET filename == FileLabel(mp) \o <<".","h","t","m","l">>
        s1 == [s EXCEPT !.result.saved_files =
                          Append(@, SavedEntry(mp.url, FilePath(s.out_dir, filename),
                                               status2, ctype2,
                                               RecordedMenuLike(mp, body))),
                        !.saved = @ + 1]
    IN  IF io = "ok" THEN s1
        ELSE [s1 EXCEPT !.result = AddError(@, <<"write_failed", mp.url, "OSError">>)]

\* a kept page is written and recorded, or the failed write is tagged
SavePage(s, mp, body, ctype2, status2, io) ==
    LET filename == FileLabel(mp) \o <<".","h","t","m","l">>
    IN  IF io = "ok"
        THEN [s EXCEPT !.result.saved_files =
                          Append(@, SavedEntry(mp.url, FilePath(s.out_dir, filename),
                                               status2, ctype2,
                                               RecordedMenuLike(mp, body))),
                       !.saved = @ + 1]
        ELSE [s EXCEPT !.result = AddError(@, <<"write_failed", mp.url, "OSError">>)]

\* what the candidate loop does with the answer to a candidate's request when
\* it is not a PDF
HandlePage(s, mp, body, ctype2, status2, io) ==
    IF body = None
    THEN [s EXCEPT !.result = AddError(@, <<"fetch_failed", mp.url, status2, ctype2>>)]
    ELSE IF looks_like_error_page(body, status2)
    THEN [s EXCEPT !.result = AddError(@, <<"error_page", mp.url, status2>>)]
    ELSE IF ~Accepted(mp, body) THEN s
    ELSE SavePage(s, mp, body, ctype2, status2, io)

\* whether HandlePage opens a file
WritesPage(mp, body, status2) ==
    body # None /\ ~looks_like_error_page(body, status2) /\ Accepted(mp, body)

\* history: an answered candidate request, the classification of its body and
\* how the write of its file ended ("not_opened" when no file was opened)
LogEntry(mp, ctype2, status2, body, io) ==
    [url |-> mp.url, guessed |-> mp.guessed, ctype2 |-> ctype2, status2 |-> status2,
     has_body |-> body # None,
     error_page |-> IF body = None THEN FALSE ELSE looks_like_error_page(body, status2),
     menu_like |-> IF body = None THEN FALSE ELSE is_menu_like(body),
     io |-> io]

\* a candidate's request answers
CandFetchResp(i) ==
    /\ run_state = "gathering"
    /\ site[i].pc = "cand_fetch"
    /\ UNCHANGED <<robots_log, home_log>>
    /\ \E resp \in PageResponses :
         LET s == site[i]
             mp == s.candidates[s.idx]
             got == fetch_text(resp)
             body == got[1]
             ctype2 == got[2]
             status2 == got[3]
         IN  IF IsPdf(ctype2)
             THEN Continue(i, [s EXCEPT !.pc = "cand_pdf", !.ctype2 = ctype2,
                                        !.status2 = status2],
                           disk, rp_cache, {<<"pdf", mp.url>>}, {}, {})
             ELSE \E io \in (IF WritesPage(mp, body, status2) THEN IOOutcomes ELSE {"ok"}) :
                  Continue(i, NextCandidate(HandlePage(s, mp, body, ctype2, status2, io)),
                           IF WritesPage(mp, body, status2)
                           THEN write_file(disk, s.out_dir, FileLabel(mp) \o <<".","h","t","m","l">>, io)
                           ELSE disk,
                           rp_cache, {}, {},
                           {LogEntry(mp, ctype2, status2, body,
                                     IF WritesPage(mp, body, status2) THEN io
                                     ELSE "not_opened")})

\* a PDF is recorded after its content is written, or the failure is tagged
SavePdf(s, mp, out) ==
    LET filename == FileLabel(mp) \o <<".","p","d","f">>
    IN  IF out = "ok"
        THEN [s EXCEPT !.result.saved_files =
                          Append(@, SavedEntry(mp.url, FilePath(s.out_dir, filename),
                                               s.status2, s.ctype2, TRUE)),
                       !.saved = @ + 1]
        ELSE [s EXCEPT !.result = AddError(@, <<"write_failed_pdf", mp.url, "Exception">>)]

\* the second request for a PDF answers and its content is written
CandPdfResp(i) ==
    /\ run_state = "gathering"
    /\ site[i].pc = "cand_pdf"
    /\ UNCHANGED <<robots_log, home_log>>
    /\ \E out \in PdfOutcomes :
         LET s == site[i]
             mp == s.candidates[s.idx]
         IN  Continue(i, NextCandidate(SavePdf(s, mp, out)),
                      IF out = "get_failed" THEN disk
                      ELSE write_file(disk, s.out_dir, FileLabel(mp) \o <<".","p","d","f">>, out),
                      rp_cache, {}, {},
                      {LogEntry(mp, s.ctype2, s.status2, None,
                                IF out = "get_failed" THEN "not_opened" ELSE out)})

(***************************************************************************)
(* run: gather and the summary.                                             *)
(***************************************************************************)
\* gather handing over the results in the reverse of the input order
mGatherDoneReversed ==
    /\ run_state = "gathering"
    /\ \A i \in Workers : site[i].pc = "finished"
    /\ run_state' = "done"
    /\ summary' = [i \in DOMAIN results |-> results[Len(results) + 1 - i]]
    /\ UNCHANGED <<restaurants, max_pages_per_site, concurrency, run_no, disk,
                   rp_cache, sem, completed, results, site, net, allowed, fetch_log,
                   prev, robots_log, home_log, meta_io, links, pure>>

\* every worker returned: gather hands over the results in input order and the
\* summary files are written
GatherDone ==
    /\ run_state = "gathering"
    /\ \A i \in Workers : site[i].pc = "finished"
    /\ run_state' = "done"
    /\ summary' = results
    /\ UNCHANGED <<restaurants, max_pages_per_site, concurrency, run_no, disk,
                   rp_cache, sem, completed, results, site, net, allowed, fetch_log,
                   prev, robots_log, home_log, meta_io, links, pure>>

\* a worker raised: gather raises in run, no summary is written, and
\* asyncio.run cancels the workers that have not finished
GatherRaise ==
    /\ run_state = "gathering"
    /\ \E i \in Workers : site[i].pc = "raised"
    /\ run_state' = "aborted"
    /\ site' = [i \in Workers |->
                  IF site[i].pc \in {"finished", "raised"} THEN site[i]
                  ELSE [QueuedSite EXCEPT !.pc = "cancelled"]]
    /\ UNCHANGED <<restaurants, max_pages_per_site, concurrency, run_no, disk,
                   summary, rp_cache, sem, completed, results, net, allowed,
                   fetch_log, prev, robots_log, home_log, meta_io, links, pure>>

\* the program is run again on the same input list and output root
NewRun ==
    /\ run_state \in {"done", "aborted"}
    /\ run_no < MaxRuns
    /\ run_no' = run_no + 1
    /\ prev' = [i \in Workers |->
                  IF site[i].pc # "finished" THEN "none"
                  ELSE IF results[i].found THEN "found" ELSE "miss"]
    /\ \E in \in RunInputs :
         /\ in.list = restaurants
         /\ in.conc = concurrency
         /\ StartRun(in.list, in.budget, in.conc)
    /\ UNCHANGED <<disk, links, pure>>

Next ==
    \/ \E i \in Workers : Start(i)
    \/ \E i \in Workers : RobotsHomeResp(i)
    \/ \E i \in Workers : HomeResp(i)
    \/ \E i \in Workers : LoopHead(i)
    \/ \E i \in Workers : CandRobotsResp(i)
    \/ \E i \in Workers : CandFetchResp(i)
    \/ \E i \in Workers : CandPdfResp(i)
    \/ GatherDone
    \/ GatherRaise
    \/ NewRun

Spec == Init /\ [][Next]_vars

(***************************************************************************)
(* discover_menu_links applied on its own to a homepage.                    *)
(***************************************************************************)
InitLinks ==
    /\ restaurants = <<>>
    /\ max_pages_per_site = 0
    /\ concurrency = 1
    /\ run_no = 1
    /\ run_state = "off"
    /\ disk = EmptyFn
    /\ summary = None
    /\ rp_cache = EmptyFn
    /\ sem = 1
    /\ completed = 0
    /\ results = <<>>
    /\ site = <<>>
    /\ net = <<>>
    /\ allowed = <<>>
    /\ fetch_log = <<>>
    /\ prev = <<>>
    /\ robots_log = {}
    /\ home_log = <<>>
    /\ meta_io = <<>>
    /\ pure = NoPure
    /\ \E html \in LinkDocs :
         links = [pc |-> "call", base_url |-> <<"h","t","t","p","s",":","/","/","a",".","c","o","m">>, html |-> html,
                  out |-> <<>>, combined |-> <<>>]

DiscoverLinks ==
    /\ links.pc = "call"
    /\ links' = [links EXCEPT !.pc = "returned",
                              !.out = discover_menu_links(links.base_url, links.html)]
    /\ UNCHANGED <<restaurants, max_pages_per_site, concurrency, run_no, run_state,
                   disk, summary, rp_cache, sem, completed, results, site, net,
                   allowed, fetch_log, prev, robots_log, home_log, meta_io, pure>>

\* process_restaurant appends the guessed candidates to the discovered ones
CombineLinks ==
    /\ links.pc = "returned"
    /\ links' = [links EXCEPT !.pc = "combined",
                              !.combined = CombinedCandidates(links.base_url, links.html)]
    /\ UNCHANGED <<restaurants, max_pages_per_site, concurrency, run_no, run_state,
                   disk, summary, rp_cache, sem, completed, results, site, net,
                   allowed, fetch_log, prev, robots_log, home_log, meta_io, pure>>

NextLinks == DiscoverLinks \/ CombineLinks

SpecLinks == InitLinks /\ [][NextLinks]_vars

(***************************************************************************)
(* score_link and is_menu_like applied on their own.                        *)
(***************************************************************************)
crawl_vars == <<restaurants, max_pages_per_site, concurrency, run_no, run_state, disk,
                summary, rp_cache, sem, completed, results, site, net, allowed,
                fetch_log, prev, robots_log, home_log, meta_io>>

InitPure ==
    /\ restaurants = <<>>
    /\ max_pages_per_site = 0
    /\ concurrency = 1
    /\ run_no = 1
    /\ run_state = "off"
    /\ disk = EmptyFn
    /\ summary = None
    /\ rp_cache = EmptyFn
    /\ sem = 1
    /\ completed = 0
    /\ results = <<>>
    /\ site = <<>>
    /\ net = <<>>
    /\ allowed = <<>>
    /\ fetch_log = <<>>
    /\ prev = <<>>
    /\ robots_log = {}
    /\ home_log = <<>>
    /\ meta_io = <<>>
    /\ links = NoLinks
    /\ \/ \E text \in ScoreTexts, href \in ScoreHrefs, other \in ScoreOthers :
            pure = [pc |-> "score", fn |-> "score_link", text |-> text, href |-> href,
                    other |-> other, out |-> <<>>]
       \/ \E p, c, k, p2, c2, k2 \in 0..MaxHits :
            /\ p <= p2 /\ c <= c2 /\ k <= k2
            /\ pure = [pc |-> "classify", fn |-> "is_menu_like",
                       doc |-> CountDoc(p, c, k), more |-> CountDoc(p2, c2, k2),
                       out |-> <<>>]

\* score_link(text, href) is called
ScoreFirst ==
    /\ pure.pc = "score"
    /\ pure' = [pure EXCEPT !.pc = "between",
                            !.out = Append(@, score_link(pure.text, pure.href))]
    /\ UNCHANGED <<crawl_vars, links>>

\* another link is scored
ScoreBetween ==
    /\ pure.pc = "between"
    /\ pure' = [pure EXCEPT !.pc = "again",
                            !.out = Append(@, score_link(pure.other[1], pure.other[2]))]
    /\ UNCHANGED <<crawl_vars, links>>

\* score_link(text, href) is called once more
ScoreAgain ==
    /\ pure.pc = "again"
    /\ pure' = [pure EXCEPT !.pc = "done",
                            !.out = Append(@, score_link(pure.text, pure.href))]
    /\ UNCHANGED <<crawl_vars, links>>

\* is_menu_like is called on a text
ClassifyFirst ==
    /\ pure.pc = "classify"
    /\ pure' = [pure EXCEPT !.pc = "more", !.out = Append(@, is_menu_like(pure.doc))]
    /\ UNCHANGED <<crawl_vars, links>>

\* is_menu_like is called on the text with tokens added
ClassifyMore ==
    /\ pure.pc = "more"
    /\ pure' = [pure EXCEPT !.pc = "done", !.out = Append(@, is_menu_like(pure.more))]
    /\ UNCHANGED <<crawl_vars, links>>

NextPure ==
    \/ ScoreFirst
    \/ ScoreBetween
    \/ ScoreAgain
    \/ ClassifyFirst
    \/ ClassifyMore

SpecPure == InitPure /\ [][NextPure]_vars

(***************************************************************************)
(* Properties.                                                              *)
(***************************************************************************)
\* the workers whose result dict exists: being built, or returned
Live(i) == site[i].pc \notin {"queued", "raised", "cancelled"}

\* the result dict of a live worker
CurResult(i) == IF site[i].pc = "finished" THEN results[i] ELSE site[i].result

Returned(i) == site[i].pc = "finished"

HasTag(result, tag) == \E k \in DOMAIN result.errors : result.errors[k] = tag

IsPdfType(ctype) == ctype # NoneStr /\ Contains(ctype, <<"p","d","f">>)

\* the directory of a restaurant holds saved documents: a metadata record that
\* lists saved files, or a file with a document extension
HasDocuments(d, r) ==
    LET out_dir == restaurant_output_dir(r)
    IN  /\ out_dir \in DOMAIN d
        /\ \/ (d[out_dir].meta \notin {None, Broken} /\ d[out_dir].meta.saved_files # <<>>)
           \/ \E fn \in DOMAIN d[out_dir].files :
                \E ext \in {<<".","h","t","m","l">>, <<".","h","t","m">>, <<".","p","d","f">>} : EndsWith(fn, ext)

\* C1 as stated: every returned SiteResult, from a fresh crawl or reconstructed
\* from existing output, lists at most max_pages_per_site saved documents.
C1_PageBudgetEveryResult ==
    \A i \in Workers :
        Returned(i) => Len(results[i].saved_files) <= max_pages_per_site

\* C1 amended: a result built by a fresh crawl never lists more than
\* max_pages_per_site saved documents, while it is built and when it is returned.
C1_PageBudgetFreshCrawl ==
    \A i \in Workers :
        (Live(i) /\ ~CurResult(i).skipped) =>
            /\ Len(CurResult(i).saved_files) <= max_pages_per_site
            /\ site[i].saved <= max_pages_per_site

\* C1 witness: the budget cuts a crawl short, candidates being left
C1_BudgetCutsCrawl ==
    \E i \in Workers :
        /\ site[i].pc = "loop"
        /\ max_pages_per_site >= 1
        /\ site[i].saved = max_pages_per_site
        /\ site[i].idx <= Len(site[i].candidates)

C3_ResumeRule ==
    [][\A i \in Workers :
         (/\ site[i].pc = "queued"
          /\ site'[i].pc \notin {"queued", "cancelled"}
          /\ HasDocuments(disk, restaurants[i]))
         => /\ site'[i].pc = "finished"
            /\ results'[i].found /\ results'[i].skipped
            /\ net'[i] = {}
            /\ disk' = disk]_vars

\* C3 witness: a restaurant resumed from the scan of its directory
C3_ResumedFromScan ==
    \E i \in Workers :
        /\ Returned(i) /\ results[i].skipped /\ results[i].found /\ net[i] = {}
        /\ HasTag(results[i], <<"skipped_existing_menu_no_meta">>)

\* a write of a document into the directory of worker i has completed
DocumentWritten(i) ==
    LET out_dir == restaurant_output_dir(restaurants[i])
    IN  /\ out_dir \in DOMAIN disk
        /\ \E fn \in DOMAIN disk[out_dir].files : disk[out_dir].files[fn] = "complete"

\* C4: a returned SiteResult has found set iff a document of the site was
\* written to disk, found equals (saved documents > 0), the saved counter equals
\* the length of saved_files, and every metadata record has found equal to
\* (saved_files non-empty).
C4_FoundIffDocumentWritten ==
    /\ \A i \in Workers :
        /\ Returned(i) =>
            /\ results[i].found = (Len(results[i].saved_files) > 0)
            /\ results[i].found = DocumentWritten(i)
        /\ (Live(i) /\ ~Returned(i)) => site[i].saved = Len(site[i].result.saved_files)
    /\ \A dir \in DOMAIN disk :
        disk[dir].meta \notin {None, Broken} =>
            disk[dir].meta.found = (Len(disk[dir].meta.saved_files) > 0)

\* C5 as stated: no guessed candidate whose content did not pass is_menu_like
\* is saved, whatever its host.
C5_GuessedSavedOnlyIfMenuLike ==
    \A i \in Workers : \A e \in fetch_log[i] :
        (e.guessed /\ ~e.menu_like) => e.io # "ok"

\* C5 amended: for a guessed candidate on a host that is no external platform,
\* a page (not a PDF) whose content fails is_menu_like is not saved, no file
\* being opened for it; a saved guessed candidate passed is_menu_like, or is a
\* PDF, or is on an external platform.
C5_GuessedGateOwnHostPages ==
    \A i \in Workers : \A e \in fetch_log[i] :
        e.guessed =>
            /\ (e.has_body /\ ~e.menu_like /\ ~host_matches_external(HostOf(e.url)))
                 => e.io = "not_opened"
            /\ e.io = "ok" =>
                 \/ e.menu_like
                 \/ IsPdfType(e.ctype2)
                 \/ host_matches_external(HostOf(e.url))

\* C5 witness: a guessed /menu page of the site's own host, answered with
\* status 200 and a text without prices, was rejected
C5_GuessedPlainPageRejected ==
    \E i \in Workers : \E e \in fetch_log[i] :
        /\ e.guessed /\ e.has_body /\ ~e.menu_like /\ e.status2 = 200
        /\ ~host_matches_external(HostOf(e.url))
        /\ PathImpliesMenu(e.url)
        /\ e.io = "not_opened"

\* C6 as stated: a candidate answered with a status >= 400 is never saved,
\* whatever its content type, and is tagged error_page.
C6_ErrorStatusNeverSaved ==
    \A i \in Workers : \A e \in fetch_log[i] :
        (Live(i) /\ e.status2 # NoneInt /\ e.status2 >= 400) =>
            /\ e.io = "not_opened"
            /\ HasTag(CurResult(i), <<"error_page", e.url, e.status2>>)

\* C6 amended: a candidate answered with an HTML body and a status >= 400 is
\* classified an error page whatever the body, no file is opened for it and it
\* is tagged error_page with its URL and status.
C6_HtmlErrorStatusNeverSaved ==
    /\ \A i \in Workers : \A e \in fetch_log[i] :
        (Live(i) /\ e.has_body /\ e.status2 # NoneInt /\ e.status2 >= 400) =>
            /\ e.io = "not_opened"
            /\ HasTag(CurResult(i), <<"error_page", e.url, e.status2>>)
    /\ \A resp \in PageResponses :
        (~resp.raises /\ resp.status_code >= 400) =>
            looks_like_error_page(resp.html, resp.status_code)

\* C6 witness: a page with prices answered with status 404 was tagged, not saved
C6_Html404Tagged ==
    \E i \in Workers : \E e \in fetch_log[i] :
        /\ Live(i) /\ e.has_body /\ e.menu_like /\ e.status2 = 404
        /\ e.io = "not_opened"
        /\ HasTag(CurResult(i), <<"error_page", e.url, 404>>)

\* C7: a fetched candidate answered with a PDF content type is recorded as a
\* saved document with is_menu_like set and a file name ending in .pdf, or, when
\* the download or the write raised, tagged write_failed_pdf; the saved counter
\* follows saved_files.
C7_PdfAlwaysSaved ==
    \A i \in Workers :
        Live(i) =>
            /\ (~Returned(i) /\ ~CurResult(i).skipped) =>
                   site[i].saved = Len(site[i].result.saved_files)
            /\ \A e \in fetch_log[i] :
                IsPdfType(e.ctype2) =>
                    IF e.io = "ok"
                    THEN \E k \in DOMAIN CurResult(i).saved_files :
                            LET f == CurResult(i).saved_files[k]
                            IN  /\ f.url = e.url
                                /\ f.is_menu_like
                                /\ EndsWith(f.file, <<".","p","d","f">>)
                                /\ f.content_type = e.ctype2
                                /\ f.status = e.status2
                    ELSE /\ HasTag(CurResult(i), <<"write_failed_pdf", e.url, "Exception">>)
                         /\ \A k \in DOMAIN CurResult(i).saved_files :
                                CurResult(i).saved_files[k].url # e.url

\* C7 witness: a PDF answered with status 404 was saved
C7_PdfSaved ==
    \E i \in Workers : \E e \in fetch_log[i] :
        /\ Live(i) /\ IsPdfType(e.ctype2) /\ e.status2 = 404 /\ e.io = "ok"
        /\ \E k \in DOMAIN CurResult(i).saved_files :
             CurResult(i).saved_files[k].url = e.url

\* a robots check answers allowed in a step exactly for a URL that the policy
\* cached for its host at that moment allows, and the step that takes up a
\* candidate the policy disallows tags it and requests nothing
RobotsCheckDecides ==
    \A i \in Workers :
        /\ \A u \in allowed'[i] \ allowed[i] :
              /\ HostOf(u) \in DOMAIN rp_cache'
              /\ can_fetch(rp_cache'[HostOf(u)], u)
        /\ (/\ site[i].pc \in {"loop", "cand_robots"}
            /\ site'[i].pc = "loop"
            /\ site'[i].idx = site[i].idx + 1
            /\ run_state' = "gathering"
            /\ site[i].pc = "loop" =>
                  site[i].candidates[site[i].idx].url \notin site[i].seen_urls) =>
              LET u == site[i].candidates[site[i].idx].url
              IN  /\ ~can_fetch(rp_cache'[HostOf(u)], u)
                  /\ HasTag(site'[i].result, <<"blocked_by_robots", u>>)
                  /\ \A req \in net'[i] \ net[i] : req[1] = "robots"
                  /\ u \notin allowed'[i] \ allowed[i]

\* C8: every page and PDF request follows a robots check of the same URL that
\* answered allowed, under the policy cached for its host at the check; a
\* candidate the policy disallows is tagged blocked_by_robots, never
\* requested, never saved.
C8_RobotsCompliance ==
    /\ [](\A i \in Workers :
            /\ \A req \in net[i] : req[1] \in {"page", "pdf"} => req[2] \in allowed[i]
            /\ \A u \in site[i].seen_urls :
                  HasTag(site[i].result, <<"blocked_by_robots", u>>) =>
                      /\ \A req \in net[i] : req[1] = "pdf" => req[2] # u
                      /\ \A req \in net[i] :
                            (req[1] = "page" /\ req[2] = u) => u = site[i].base_url
                      /\ \A e \in fetch_log[i] : e.url # u
                      /\ \A k \in DOMAIN site[i].result.saved_files :
                             site[i].result.saved_files[k].url # u)
    /\ [][RobotsCheckDecides]_vars

\* C8 witness: a candidate was blocked and a later candidate was requested
C8_BlockedThenNextFetched ==
    \E i \in Workers :
        /\ Live(i) /\ ~Returned(i)
        /\ \E u \in site[i].seen_urls :
            /\ HasTag(site[i].result, <<"blocked_by_robots", u>>)
            /\ \E k \in DOMAIN site[i].candidates :
                /\ site[i].candidates[k].url = u
                /\ k < site[i].idx
                /\ site[i].idx <= Len(site[i].candidates)
                /\ <<"page", site[i].candidates[site[i].idx].url>> \in net[i]

\* the score discover_menu_links computes for an anchor
AnchorScore(base_url, a) ==
    score_link(Take(Strip(a.text), 200), a.href)
      + (IF host_matches_external(HostOf(urljoin(base_url, a.href))) THEN 6 ELSE 0)

\* the scores computed for a URL: those of the anchors resolving to it, and the
\* score of the injected homepage
ScoresFor(base_url, html, url) ==
    {AnchorScore(base_url, html.anchors[k]) :
        k \in {j \in DOMAIN html.anchors :
                  html.anchors[j].href # <<>>
                  /\ urljoin(base_url, html.anchors[j].href) = url}}
    \cup (IF is_menu_like(html) /\ url = base_url THEN {5} ELSE {})

\* C9: the list discover_menu_links returns holds no URL twice, and each
\* candidate carries the maximum of the scores computed for its URL.
C9_DedupKeepsMaxScore ==
    links.pc = "returned" =>
        /\ \A j, k \in DOMAIN links.out : links.out[j].url = links.out[k].url => j = k
        /\ \A k \in DOMAIN links.out :
            \A sc \in ScoresFor(links.base_url, links.html, links.out[k].url) :
                sc <= links.out[k].score

\* C10: no worker ends with an exception, and a run that has ended has
\* processed every scheduled restaurant and written its summary.
C10_FailureIsolation ==
    /\ \A i \in Workers : site[i].pc # "raised"
    /\ run_state \in {"done", "aborted"} =>
        /\ summary # None
        /\ \A i \in Workers : Returned(i)

\* the error list worker i has gathered, empty before it has a result
ErrorsNow(i) ==
    IF site[i].pc = "finished" THEN results[i].errors
    ELSE IF site[i].result = None THEN <<>> ELSE site[i].result.errors

\* C11: while the policy cached for a host comes from a robots.txt request that
\* raised or answered a status other than 200, it allows every URL of the
\* host, and no step tags a homepage or candidate of the host as blocked by
\* robots.
C11_RobotsFallbackAllowsAll ==
    /\ [](\A h \in robots_log :
            /\ h \in DOMAIN rp_cache
            /\ \A i \in Workers :
                  \A u \in site[i].seen_urls \cup {normalize_url(restaurants[i].website)} :
                      HostOf(u) = h => can_fetch(rp_cache[h], u))
    /\ [][\A i \in Workers :
             (run_no' = run_no /\ site[i].pc # "finished") =>
                 \A k \in DOMAIN ErrorsNow(i)' :
                     LET tag == ErrorsNow(i)'[k]
                     IN  k > Len(ErrorsNow(i)) =>
                             /\ tag[1] = "blocked_by_robots" =>
                                   HostOf(tag[2]) \notin robots_log'
                             /\ tag[1] = "blocked_by_robots_home" =>
                                   HostOf(normalize_url(restaurants[i].website))
                                       \notin robots_log']_vars

\* C11 witness: a candidate of a host was fetched after the host's robots.txt
\* request failed
C11_FetchedAfterRobotsFailed ==
    \E h \in robots_log : \E i \in Workers : \E e \in fetch_log[i] :
        Live(i) /\ HostOf(e.url) = h /\ PathOf(e.url) = <<"/","m","e","n","u">>

\* the workers inside process_restaurant
InProgress == {i \in Workers : site[i].pc \notin {"queued", "finished", "raised", "cancelled"}}

\* C12: at most concurrency workers are inside process_restaurant at the same
\* time, and while the run gathers, the free permits of the semaphore are
\* those not held by them.
C12_BoundedParallelism ==
    /\ Cardinality(InProgress) <= concurrency
    /\ sem >= 0
    /\ run_state = "gathering" => sem = concurrency - Cardinality(InProgress)

\* C12 witness: one permit, one worker inside process_restaurant, another waiting
C12_WorkerWaitsForPermit ==
    /\ concurrency = 1
    /\ Cardinality(InProgress) = 1
    /\ \E i \in Workers : site[i].pc = "queued"

\* the output directory of worker i
OutDir(i) == restaurant_output_dir(restaurants[i])

\* every document a metadata record with found set lists is a file of its directory
ListedFilesExist ==
    \A dir \in DOMAIN disk :
        (disk[dir].meta \notin {None, Broken} /\ disk[dir].meta.found) =>
            \A k \in DOMAIN disk[dir].meta.saved_files :
                \E fn \in DOMAIN disk[dir].files :
                    FilePath(dir, fn) = disk[dir].meta.saved_files[k].file

\* the metadata of a site is written in the step that ends its processing, and
\* afterwards, in the same run, nothing is requested for the site and its
\* processing writes nothing more (what is written into its directory then is
\* written by the processing of another site with the same directory)
MetadataStepIsLast ==
    \A i \in Workers :
        /\ (OutDir(i) \in DOMAIN disk /\ disk'[OutDir(i)].meta # disk[OutDir(i)].meta) =>
              \E j \in Workers :
                  /\ OutDir(j) = OutDir(i)
                  /\ site[j].pc # "finished" /\ site'[j].pc = "finished"
                  /\ meta_io'[j] \in {"ok", "write_failed"}
        /\ (OutDir(i) \notin DOMAIN disk /\ OutDir(i) \in DOMAIN disk') =>
              disk'[OutDir(i)].meta = None
        /\ (meta_io[i] # "none" /\ run_no' = run_no) =>
              (/\ site'[i].pc = "finished"
               /\ net'[i] = net[i]
               /\ fetch_log'[i] = fetch_log[i]
               /\ \/ disk'[OutDir(i)] = disk[OutDir(i)]
                  \/ \E j \in Workers \ {i} :
                        OutDir(j) = OutDir(i) /\ site'[j] # site[j])

\* C13: the metadata write is the last step of a site's processing, no request
\* and no document write following it, and at every point a metadata.json
\* with found set lists only documents whose files are in the directory.
C13_MetadataWrittenLast ==
    /\ [](ListedFilesExist /\ \A i \in Workers : meta_io[i] # "none" => site[i].pc = "finished")
    /\ [][MetadataStepIsLast]_vars

\* C13 witness: a crawl ended with a metadata record that lists a saved document
C13_MetadataListsSaved ==
    \E i \in Workers :
        /\ Returned(i) /\ ~results[i].skipped /\ meta_io[i] = "ok"
        /\ disk[OutDir(i)].meta \notin {None, Broken}
        /\ disk[OutDir(i)].meta.found
        /\ Len(disk[OutDir(i)].meta.saved_files) >= 1

\* C14: every crawl that is not resumed ends by writing a metadata record whose
\* found flag, saved_files and website are those of the returned result, and
\* a failed write is tagged meta_write_failed on the result.
C14_MetadataAlwaysWritten ==
    \A i \in Workers :
        (Returned(i) /\ ~results[i].skipped) =>
            /\ meta_io[i] # "none"
            /\ IF meta_io[i] = "ok"
               THEN /\ disk[OutDir(i)].meta \notin {None, Broken}
                    /\ disk[OutDir(i)].meta.found = results[i].found
                    /\ disk[OutDir(i)].meta.saved_files = results[i].saved_files
                    /\ disk[OutDir(i)].meta.website = results[i].website
               ELSE HasTag(results[i], <<"meta_write_failed", "OSError">>)

\* the homepage whose only anchor is <a href="/menu">Our Menu</a>
OnlyMenuLink(html) == html.anchors = <<Anchor(<<"/","m","e","n","u">>, <<"O","u","r"," ","M","e","n","u">>)>>

\* C15: for a homepage whose only anchor is <a href="/menu">Our Menu</a>, menu-like
\* or not, the candidate of the resolved /menu URL has a score of at least 5
\* and is the first entry of discover_menu_links' result and of the combined
\* candidate list.
C15_MenuLinkRanksFirst ==
    (links.pc \in {"returned", "combined"} /\ OnlyMenuLink(links.html)) =>
        /\ Len(links.out) >= 1
        /\ links.out[1].url = urljoin(links.base_url, <<"/","m","e","n","u">>)
        /\ links.out[1].score >= 5
        /\ ~links.out[1].guessed
        /\ links.pc = "combined" =>
              (Len(links.combined) >= 1 /\ links.combined[1] = links.out[1])

\* C15 witness: the menu link ranks before the injected menu-like homepage
C15_MenuLinkBeforeHomepage ==
    /\ links.pc = "combined"
    /\ OnlyMenuLink(links.html)
    /\ is_menu_like(links.html)
    /\ Len(links.combined) = 2
    /\ links.combined[2].url = links.base_url

\* the calls of score_link on its own
ScoreCalls == pure.pc # "off" /\ pure.fn = "score_link"

ThreeTierRule(p, c, k) == p >= 3 \/ c >= 2 \/ (p >= 1 /\ k >= 3)

\* C17: is_menu_like follows the three-tier rule on the counts of price tokens,
\* currency symbols and category keywords, and a text classified menu-like is
\* still classified menu-like with price tokens added and no count decreased.
C17_MenuLikeMonotonic ==
    (pure.pc # "off" /\ pure.fn = "is_menu_like") =>
        /\ Len(pure.out) >= 1 =>
              pure.out[1] = ThreeTierRule(pure.doc.price_hits, pure.doc.currency_hits,
                                          pure.doc.cat_hits)
        /\ Len(pure.out) = 2 => (pure.out[1] => pure.out[2])

\* C17 witness: a text with one price and three category keywords stays
\* menu-like with a second price added
C17_PriceAddedStaysMenuLike ==
    /\ pure.pc = "done" /\ pure.fn = "is_menu_like"
    /\ pure.doc.price_hits = 1 /\ pure.doc.currency_hits = 0 /\ pure.doc.cat_hits = 3
    /\ pure.more.price_hits = 2 /\ pure.more.currency_hits = 0 /\ pure.more.cat_hits = 3
    /\ pure.out = <<TRUE, TRUE>>

\* the homepage URL of worker i
HomeUrl(i) == normalize_url(restaurants[i].website)

\* worker i has ended without a document and without a candidate request
EndedWithoutDocuments(i) ==
    /\ Returned(i)
    /\ ~results[i].found
    /\ results[i].saved_files = <<>>
    /\ fetch_log[i] = {}
    /\ \A req \in net[i] : req[1] = "pdf" \/ req[1] = "page" => req[2] = HomeUrl(i)

\* the metadata file of worker i holds a record with found=false and no file
RecordSaysNotFound(i) ==
    /\ disk[OutDir(i)].meta \notin {None, Broken}
    /\ ~disk[OutDir(i)].meta.found
    /\ disk[OutDir(i)].meta.saved_files = <<>>

\* another site of the run has the directory of worker i and has written its
\* own metadata file there
TwinWroteMetadata(i) ==
    \E j \in Workers \ {i} :
        OutDir(j) = OutDir(i) /\ meta_io[j] \in {"ok", "write_failed"}

\* the metadata write of worker i was attempted, and a write that succeeded
\* left a record with found=false
RecordAttempted(i) ==
    /\ meta_io[i] # "none"
    /\ meta_io[i] = "ok" => (RecordSaysNotFound(i) \/ TwinWroteMetadata(i))

\* the metadata write of worker i succeeded with a record with found=false
RecordWritten(i) ==
    /\ meta_io[i] = "ok"
    /\ RecordSaysNotFound(i) \/ TwinWroteMetadata(i)

\* the robots check of worker i's homepage has been made and did not allow it
HomeRobotsSaidNo(i) ==
    site[i].pc # "robots_home" /\ HomeUrl(i) \notin allowed[i]

\* the step in which worker i makes the robots check of its homepage allows
\* it exactly when the policy cached for the host at that moment does
HomeRobotsCheckDecides(i) ==
    (/\ site[i].pc \in {"queued", "robots_home"}
     /\ site'[i].pc \notin {"queued", "robots_home", "raised", "cancelled"}
     /\ ~(site'[i].pc = "finished" /\ results'[i].skipped)) =>
        /\ HostOf(HomeUrl(i)) \in DOMAIN rp_cache'
        /\ HomeUrl(i) \in allowed'[i]
              <=> can_fetch(rp_cache'[HostOf(HomeUrl(i))], HomeUrl(i))

\* the two site-fatal exits of worker i; on_disk tells whether the metadata
\* record has to be on disk or its write only attempted
SiteFatalRule(i, on_disk) ==
    (Live(i) /\ ~CurResult(i).skipped) =>
        /\ HomeRobotsSaidNo(i) =>
              /\ EndedWithoutDocuments(i)
              /\ results[i].errors = << <<"blocked_by_robots_home">> >>
              /\ ~home_log[i].answered
              /\ \A req \in net[i] : req[1] = "robots"
              /\ IF on_disk THEN RecordWritten(i) ELSE RecordAttempted(i)
        /\ (home_log[i].answered /\ home_log[i].failed) =>
              /\ EndedWithoutDocuments(i)
              /\ results[i].errors =
                   << <<"homepage_unavailable", home_log[i].status, home_log[i].ctype>> >>
              /\ IF on_disk THEN RecordWritten(i) ELSE RecordAttempted(i)

LoopPcs == {"loop", "cand_robots", "cand_fetch", "cand_pdf"}

\* the tags of the per-candidate failures
CandidateTags == {"blocked_by_robots", "fetch_failed", "error_page", "write_failed",
                  "write_failed_pdf"}

\* the error list of worker i after the step
ErrorsAfter(i) ==
    IF site'[i].pc = "finished" THEN results'[i].errors ELSE site'[i].result.errors

\* a step of worker i inside the candidate loop, the cancellation of the run
\* by another worker's exception apart
LoopStep(i) ==
    /\ site[i].pc \in LoopPcs
    /\ site'[i] # site[i]
    /\ run_state' = "gathering"

\* the step appends exactly the tag of kind for the current candidate and
\* moves on to the next candidate
TagsAndMovesOn(i, kind) ==
    /\ Len(ErrorsAfter(i)) = Len(site[i].result.errors) + 1
    /\ SubSeq(ErrorsAfter(i), 1, Len(site[i].result.errors)) = site[i].result.errors
    /\ ErrorsAfter(i)[Len(ErrorsAfter(i))][1] = kind
    /\ ErrorsAfter(i)[Len(ErrorsAfter(i))][2] = site[i].candidates[site[i].idx].url
    /\ site'[i].pc = "loop"
    /\ site'[i].idx = site[i].idx + 1
    /\ site'[i].candidates = site[i].candidates
    /\ site'[i].saved = site[i].saved

\* what a step inside the candidate loop does to the error list and the loop
CandidateFailureRule(i) ==
    LET s == site[i]
        answered == fetch_log'[i] \ fetch_log[i]
    IN  IF site'[i].pc = "finished"
        THEN /\ s.pc = "loop"
             /\ BudgetReached(s.saved, max_pages_per_site) \/ s.idx > Len(s.candidates)
             /\ \A k \in DOMAIN ErrorsAfter(i) :
                    k > Len(s.result.errors) => ErrorsAfter(i)[k][1] = "meta_write_failed"
        ELSE /\ site'[i].pc \in LoopPcs
             /\ ~(s.pc = "loop" /\ (BudgetReached(s.saved, max_pages_per_site)
                                     \/ s.idx > Len(s.candidates)))
             /\ \/ ErrorsAfter(i) = s.result.errors
                \/ \E kind \in CandidateTags : TagsAndMovesOn(i, kind)
             /\ (s.pc \in {"loop", "cand_robots"} /\ site'[i].idx = s.idx + 1
                 /\ (s.pc = "loop" => s.candidates[s.idx].url \notin s.seen_urls)) =>
                    /\ ~can_fetch(rp_cache'[HostOf(s.candidates[s.idx].url)],
                                  s.candidates[s.idx].url)
                    /\ TagsAndMovesOn(i, "blocked_by_robots")
             /\ (s.pc = "cand_fetch" /\ site'[i].pc = "loop") =>
                    \E e \in answered :
                        /\ answered = {e}
                        /\ ~e.has_body <=> TagsAndMovesOn(i, "fetch_failed")
                        /\ e.io \in {"open_failed", "write_failed"}
                              <=> TagsAndMovesOn(i, "write_failed")
                        /\ TagsAndMovesOn(i, "error_page") =>
                              e.has_body /\ e.io = "not_opened"
             /\ s.pc = "cand_pdf" =>
                    \E e \in answered :
                        /\ answered = {e}
                        /\ e.io # "ok" <=> TagsAndMovesOn(i, "write_failed_pdf")
                        /\ e.io = "ok" => /\ ErrorsAfter(i) = s.result.errors
                                          /\ site'[i].idx = s.idx + 1

\* how far an iteration of the candidate loop has come
LoopRank(pc) ==
    IF pc = "loop" THEN 0 ELSE IF pc = "cand_robots" THEN 1
    ELSE IF pc = "cand_fetch" THEN 2 ELSE 3

\* a step inside the candidate loop returns the result, begins the next
\* iteration or moves forward within the iteration
LoopAdvances(i) ==
    \/ site'[i].pc = "finished" /\ results'[i] # None
    \/ site'[i].pc = "loop" /\ site'[i].idx = site[i].idx + 1
    \/ /\ site'[i].pc \in LoopPcs
       /\ site'[i].idx = site[i].idx
       /\ LoopRank(site'[i].pc) > LoopRank(site[i].pc)

\* the loop index stays within the list, one past its end at most
LoopIndexBounded ==
    \A i \in Workers :
        site[i].pc \in LoopPcs =>
            /\ site[i].idx \in 1..(Len(site[i].candidates) + 1)
            /\ site[i].pc # "loop" => site[i].idx <= Len(site[i].candidates)

\* C19: inside the candidate loop a candidate that is blocked by robots, whose
\* request fails, that is an error page or whose file cannot be written gets
\* exactly one tag naming it and the loop moves on to the next candidate; the
\* loop is left only at its head, when the saved count has reached the budget
\* or the list is exhausted, and then the result is returned; every other step
\* of the loop moves forward in the list or within the iteration, so that the
\* site returns its result after finitely many steps (the cancellation of the
\* run by another worker's exception apart).
C19_CandidateFailuresNonFatal ==
    /\ []LoopIndexBounded
    /\ [][\A i \in Workers :
             LoopStep(i) => CandidateFailureRule(i) /\ LoopAdvances(i)]_vars

\* C19 witness: a candidate was tagged fetch_failed and a later candidate of
\* the list was saved after it
C19_SavedAfterFailedCandidate ==
    \E i \in Workers :
        /\ site[i].pc = "loop"
        /\ \E j, k \in DOMAIN site[i].candidates :
              /\ j < k /\ k < site[i].idx
              /\ \E n \in DOMAIN site[i].result.errors :
                    /\ site[i].result.errors[n][1] = "fetch_failed"
                    /\ site[i].result.errors[n][2] = site[i].candidates[j].url
              /\ \E n \in DOMAIN site[i].result.saved_files :
                    site[i].result.saved_files[n].url = site[i].candidates[k].url

\* the candidate at position j of worker i's list has been requested and answered
FetchedAt(i, j) ==
    /\ j \in DOMAIN site[i].candidates
    /\ \E e \in fetch_log[i] : e.url = site[i].candidates[j].url

\* C20 (as stated): no candidate is fetched after a candidate with a strictly
\* lower score has been fetched, and when the budget ends the loop no candidate
\* the loop has not come to has a higher score than a fetched one.
C20_FetchedInScoreOrder ==
    \A i \in Workers :
        site[i].pc \in LoopPcs =>
            \A j, k \in DOMAIN site[i].candidates :
                /\ (j < k /\ FetchedAt(i, j) /\ FetchedAt(i, k)) =>
                      site[i].candidates[j].score >= site[i].candidates[k].score
                /\ (/\ site[i].pc = "loop"
                    /\ BudgetReached(site[i].saved, max_pages_per_site)
                    /\ FetchedAt(i, j) /\ k >= site[i].idx) =>
                      site[i].candidates[k].score <= site[i].candidates[j].score

\* the list of worker i: the link-derived candidates in non-increasing score
\* order, then the guessed ones, each with score 8
LinkDerivedRankedThenGuessed(i) ==
    \A j, k \in DOMAIN site[i].candidates :
        j < k =>
            LET a == site[i].candidates[j]
                b == site[i].candidates[k]
            IN  /\ a.url # b.url
                /\ a.guessed => b.guessed
                /\ (~a.guessed /\ ~b.guessed) => a.score >= b.score
                /\ b.guessed => b.score = 8

\* the answers logged by a step of worker i are for the candidate the loop is
\* at, and the loop never goes back in the list
VisitsInListOrder(i) ==
    (site[i].pc \in LoopPcs /\ site'[i].pc \in LoopPcs) =>
        /\ site'[i].candidates = site[i].candidates
        /\ site'[i].idx >= site[i].idx
        /\ \A e \in fetch_log'[i] \ fetch_log[i] :
              e.url = site[i].candidates[site[i].idx].url

\* C20 (amended): the combined list is visited in list order, which is the
\* link-derived candidates by non-increasing score followed by the guessed
\* candidates (score 8 each) whatever the link-derived scores: every fetched
\* candidate lies before the loop's position, every candidate before a
\* fetched link-derived one scores at least as much, and when the budget ends
\* the loop no link-derived candidate the loop has not come to outscores a
\* fetched link-derived one.
C20_VisitedInListOrder ==
    /\ [](\A i \in Workers :
            site[i].pc \in LoopPcs =>
                /\ LinkDerivedRankedThenGuessed(i)
                /\ \A j, k \in DOMAIN site[i].candidates :
                      /\ FetchedAt(i, j) => j <= site[i].idx
                      /\ (j < k /\ FetchedAt(i, k) /\ ~site[i].candidates[k].guessed) =>
                            site[i].candidates[j].score >= site[i].candidates[k].score
                      /\ (/\ site[i].pc = "loop"
                          /\ BudgetReached(site[i].saved, max_pages_per_site)
                          /\ FetchedAt(i, j) /\ k >= site[i].idx
                          /\ ~site[i].candidates[j].guessed
                          /\ ~site[i].candidates[k].guessed) =>
                            site[i].candidates[k].score <= site[i].candidates[j].score)
    /\ [][\A i \in Workers : run_state' = "gathering" => VisitsInListOrder(i)]_vars

\* C20 witness: a link-derived candidate was fetched, and after it a guessed
\* candidate with a higher score
C20_GuessedFetchedAfterLowerLink ==
    \E i \in Workers :
        /\ site[i].pc = "loop"
        /\ \E j, k \in DOMAIN site[i].candidates :
              /\ j < k /\ k < site[i].idx
              /\ FetchedAt(i, j) /\ FetchedAt(i, k)
              /\ ~site[i].candidates[j].guessed
              /\ site[i].candidates[k].guessed
              /\ site[i].candidates[k].score > site[i].candidates[j].score

\* the list c is the link-derived candidates out as they are, followed by
\* those of the guessed candidates g whose URL is not link-derived, every URL
\* once
LinkDerivedWin(c, out, g) ==
    /\ Len(c) >= Len(out)
    /\ SubSeq(c, 1, Len(out)) = out
    /\ \A j \in DOMAIN out : ~out[j].guessed
    /\ \A j \in DOMAIN c :
          j > Len(out) =>
              /\ c[j].guessed
              /\ \E k \in DOMAIN g : g[k] = c[j]
              /\ ~DictHas(out, c[j].url)
    /\ \A j, k \in DOMAIN c : j # k => c[j].url # c[k].url
    /\ \A j, k \in DOMAIN c : (j < k /\ c[j].guessed) => c[k].guessed
    /\ \A k \in DOMAIN g : DictHas(c, g[k].url)

\* the homepages the homepage request can answer with
HomeDocs ==
    {resp.html : resp \in {r \in HomeResponses : fetch_text(r)[1] # None}}

\* the loop of worker i takes up the candidate at its position in this step:
\* the robots policy is asked for it
TakesUpCandidate(i) ==
    /\ site[i].pc = "loop"
    /\ site'[i].pc \in LoopPcs
    /\ run_state' = "gathering"
    /\ \/ site'[i].pc \in {"cand_robots", "cand_fetch"}
       \/ Len(site'[i].result.errors) > Len(site[i].result.errors)

\* the URL taken up was not taken up before in this site
NotProcessedBefore(i) ==
    LET s == site[i]
        u == s.candidates[s.idx].url
    IN  /\ u \notin s.seen_urls
        /\ \A j \in 1..(s.idx - 1) : s.candidates[j].url # u
        /\ \A e \in fetch_log[i] : e.url # u
        /\ \A k \in DOMAIN s.result.errors :
              s.result.errors[k][1] \in CandidateTags => s.result.errors[k][2] # u
        /\ <<"pdf", u>> \notin net[i]

\* C21: the combined candidate list holds the link-derived candidates first
\* and unchanged, then the guessed ones; a URL that is link-derived and guessed
\* appears once, as its link-derived entry; and inside the candidate loop a
\* URL is taken up as a candidate at most once per site.
C21_LinkDerivedFirstNoDuplicates ==
    /\ [](\A i \in Workers :
            site[i].pc \in LoopPcs =>
                \E html \in HomeDocs :
                    LinkDerivedWin(site[i].candidates,
                                   discover_menu_links(site[i].base_url, html),
                                   build_guessed_menu_pages(site[i].base_url)))
    /\ [][\A i \in Workers : TakesUpCandidate(i) => NotProcessedBefore(i)]_vars

\* C21 witness: /menu was link-derived and guessed, it is in the list once as
\* the link-derived entry and the loop has gone past it and past a second
\* candidate
C21_MenuLinkAlsoGuessed ==
    \E i \in Workers :
        /\ site[i].pc = "loop"
        /\ site[i].idx > 2
        /\ \E j \in DOMAIN site[i].candidates :
              /\ ~site[i].candidates[j].guessed
              /\ site[i].candidates[j].score = 9
              /\ \E k \in DOMAIN build_guessed_menu_pages(site[i].base_url) :
                    build_guessed_menu_pages(site[i].base_url)[k].url
                        = site[i].candidates[j].url

\* the candidate of worker i's list with the given URL
CandidateOf(i, url) ==
    site[i].candidates[CHOOSE j \in DOMAIN site[i].candidates :
                          site[i].candidates[j].url = url]

\* a saved non-PDF document recorded as not menu-like comes from a link-derived
\* candidate on a host that is no external platform, with a menu path; and a
\* saved document on an external platform host is recorded as menu-like
SavedByTheRule(i) ==
    \A n \in DOMAIN site[i].result.saved_files :
        LET f == site[i].result.saved_files[n]
        IN  /\ DictHas(site[i].candidates, f.url)
            /\ (~f.is_menu_like /\ ~IsPdf(f.content_type)) =>
                  /\ ~CandidateOf(i, f.url).guessed
                  /\ ~host_matches_external(HostOf(f.url))
                  /\ PathImpliesMenu(f.url)
            /\ host_matches_external(HostOf(f.url)) => f.is_menu_like

\* the step of worker i answers a candidate's request with a page that is no
\* PDF and no error page: it is dropped without a tag exactly when it is not
\* menu-like, not on an external platform host, and guessed or without a menu
\* path; otherwise its file is opened
RejectsSilently(i) ==
    (site[i].pc = "cand_fetch" /\ site'[i].pc = "loop" /\ run_state' = "gathering") =>
        \A e \in fetch_log'[i] \ fetch_log[i] :
            (e.has_body /\ ~e.error_page) =>
                LET mp == site[i].candidates[site[i].idx]
                    rejected == /\ ~e.menu_like
                                /\ ~host_matches_external(HostOf(mp.url))
                                /\ (mp.guessed \/ ~PathImpliesMenu(mp.url))
                IN  /\ rejected <=> e.io = "not_opened"
                    /\ rejected =>
                          /\ site'[i].result.errors = site[i].result.errors
                          /\ site'[i].result.saved_files = site[i].result.saved_files
                          /\ site'[i].saved = site[i].saved
                          /\ site'[i].idx = site[i].idx + 1

\* C22: a saved non-PDF document recorded with is_menu_like=false comes from
\* a link-derived candidate, on a host that is no external platform, whose
\* path ends in /menu or /menus or whose last segment is menu, menus or starts
\* with menu- or menus-; a saved page on an external platform host is recorded
\* with is_menu_like=true; and a page rejected for not being menu-like adds
\* no error tag and no record.
C22_AcceptanceRule ==
    /\ [](\A i \in Workers : site[i].pc \in LoopPcs => SavedByTheRule(i))
    /\ [][\A i \in Workers : RejectsSilently(i)]_vars

\* C22 witness: a page that is not menu-like was saved from a link-derived
\* candidate and recorded as not menu-like
C22_SavedOnPathAlone ==
    \E i \in Workers :
        /\ site[i].pc = "loop"
        /\ \E n \in DOMAIN site[i].result.saved_files :
              /\ ~site[i].result.saved_files[n].is_menu_like
              /\ ~IsPdf(site[i].result.saved_files[n].content_type)
              /\ ~CandidateOf(i, site[i].result.saved_files[n].url).guessed

\* the host whose robots.txt worker i asks for when it is at a robots request
RobotsHostOf(i) ==
    IF site[i].pc = "robots_home" THEN HostOf(site[i].base_url)
    ELSE HostOf(site[i].candidates[site[i].idx].url)

\* within a run no entry of the cache is removed
CacheKeepsEntries ==
    run_no' = run_no => \A h \in DOMAIN rp_cache : h \in DOMAIN rp_cache'

\* within a run no entry of the cache is replaced by another policy
CacheKeepsPolicies ==
    run_no' = run_no =>
        \A h \in DOMAIN rp_cache : h \in DOMAIN rp_cache' => rp_cache'[h] = rp_cache[h]

\* a step changes or adds the entry of no host but the one whose robots.txt
\* request is answered in it
CacheWriteIsLocal ==
    run_no' = run_no =>
        \A h \in DOMAIN rp_cache' :
            (h \notin DOMAIN rp_cache \/ rp_cache'[h] # rp_cache[h]) =>
                \E i \in Workers :
                    /\ site[i].pc \in {"robots_home", "cand_robots"}
                    /\ site'[i] # site[i]
                    /\ RobotsHostOf(i) = h

\* a worker sends a robots.txt request only for a host without an entry
CacheHitAsksNothing ==
    \A i \in Workers :
        (site'[i].pc \in {"robots_home", "cand_robots"} /\ site'[i].pc # site[i].pc) =>
            /\ RobotsHostOf(i)' \notin DOMAIN rp_cache
            /\ \E req \in net'[i] : req[1] = "robots" /\ HostOf(req[2]) = RobotsHostOf(i)'

\* C23: under every interleaving of the workers, an entry of the robots cache,
\* once stored, is neither removed nor replaced by another policy for the
\* rest of the run; a write for one host leaves the entries of the other
\* hosts alone; and a lookup of a host that has an entry sends no robots.txt
\* request.
C23_CacheEntriesStable ==
    [][CacheKeepsEntries /\ CacheKeepsPolicies /\ CacheWriteIsLocal
       /\ CacheHitAsksNothing]_vars

\* what of C23 holds: entries are never removed, writes are local to their
\* host, and a host with an entry is never asked for again
C23_CacheExceptReplacement ==
    [][CacheKeepsEntries /\ CacheWriteIsLocal /\ CacheHitAsksNothing]_vars

\* the workers whose process_restaurant has returned
Finished == {i \in Workers : site[i].pc = "finished"}

\* the workers that return in this step
FinishNow == {i \in Workers : site[i].pc # "finished" /\ site'[i].pc = "finished"}

\* a step counts each worker that returns in it once: the value printed, the
\* counter after the step, is the next integer
CountsEachReturn ==
    run_no' = run_no =>
        /\ Cardinality(FinishNow) <= 1
        /\ completed' = completed + Cardinality(FinishNow)

\* C24: the counter completed is the number of restaurants whose worker has
\* returned, it grows by exactly one in the step in which a worker returns
\* and in no other, so that the values reported are 1, 2, ... without gap or
\* repetition, it never exceeds the number of scheduled restaurants and is
\* that number when the run is done.
C24_ProgressCountSerialized ==
    /\ [](/\ completed = Cardinality(Finished)
          /\ completed <= Len(restaurants)
          /\ run_state = "done" => completed = Len(restaurants))
    /\ [][CountsEachReturn]_vars

\* C24 witness: with two workers in flight the second restaurant was counted
\* first, and then the first
C24_SecondCountedFirst ==
    /\ Len(restaurants) = 2
    /\ completed = 2
    /\ meta_io[1] = "ok" /\ meta_io[2] = "ok"
    /\ OutDir(1) = OutDir(2)
    /\ disk[OutDir(1)].meta \notin {None, Broken}
    /\ disk[OutDir(1)].meta.uuid = restaurants[1].uuid
    /\ site[1].pc = "finished" /\ site[2].pc = "finished"

\* the summary of the run is on disk only when every worker has returned
SummaryAfterAllFinished ==
    /\ run_state \in {"gathering", "aborted"} => summary = None
    /\ run_state = "done" =>
          /\ \A i \in Workers : site[i].pc = "finished"
          /\ Len(summary) = Len(restaurants)

\* a step in which a worker appends an error tag changes nothing of another
\* worker, and a worker is cancelled only in a run in which a worker raised
TagCancelsNothing ==
    /\ \A i \in Workers :
          (/\ run_no' = run_no
           /\ site[i].pc \notin {"finished", "raised", "cancelled"}
           /\ Len(ErrorsNow(i)') > Len(ErrorsNow(i))) =>
              \A j \in Workers \ {i} : site'[j] = site[j]
    /\ \A i \in Workers :
          (site'[i].pc = "cancelled" /\ site[i].pc # "cancelled") =>
              \E j \in Workers : site[j].pc = "raised"

\* while gather waits and no worker has raised, some worker can take a step
\* unless all have returned: a worker inside process_restaurant waits for an
\* answer or is at the loop head, and a queued worker finds a free permit
\* when none is inside
SomeWorkerCanStep ==
    (run_state = "gathering" /\ \A i \in Workers : site[i].pc # "raised") =>
        \/ \A i \in Workers : site[i].pc = "finished"
        \/ InProgress # {}
        \/ sem > 0 /\ \E i \in Workers : site[i].pc = "queued"

\* C25: every scheduled restaurant reaches a terminal state, so that no worker
\* ends with an exception or is cancelled; the summary is written only after
\* all workers have returned; and a failure tagged on one site cancels no
\* work of another site.
C25_RunCompletion ==
    /\ [](\A i \in Workers : site[i].pc \notin {"raised", "cancelled"})
    /\ [](SummaryAfterAllFinished /\ SomeWorkerCanStep)
    /\ [][TagCancelsNothing]_vars

\* what of C25 holds: the summary comes after all workers, a tag cancels
\* nothing, and the workers never block each other
C25_ExceptUncaughtException ==
    /\ [](SummaryAfterAllFinished /\ SomeWorkerCanStep)
    /\ [][TagCancelsNothing]_vars

\* the anchors of the homepage that carry an href and lead to an external
\* ordering platform host
ExternalAnchors(base_url, html) ==
    {k \in DOMAIN html.anchors :
        /\ html.anchors[k].href # <<>>
        /\ host_matches_external(HostOf(urljoin(base_url, html.anchors[k].href)))}

\* the URL anchor k of the homepage resolves to
AnchorUrl(base_url, html, k) == urljoin(base_url, html.anchors[k].href)

\* the positions of the returned list that hold the given URL
PositionsOf(out, url) == {j \in DOMAIN out : out[j].url = url}

DistinctRestaurants(i, j) == i # j /\ restaurants[i].uuid # restaurants[j].uuid

\* C27 as stated: restaurants of a run with different identifiers have
\* different output directories, so the metadata record in the directory of a
\* restaurant that has written one in this run carries its identifier.
C27_OneDirectoryPerRestaurant ==
    \A i, j \in Workers :
        DistinctRestaurants(i, j) =>
            /\ OutDir(i) # OutDir(j)
            /\ (site[i].pc = "finished" /\ meta_io[i] = "ok" /\ ~results[i].skipped) =>
                  disk[OutDir(i)].meta.uuid = restaurants[i].uuid

\* the SavedDocument records of worker i in this run: those of the result it
\* is building, or of the result it returned when it did not resume
SavedNow(i) ==
    IF site[i].pc = "finished"
    THEN (IF results[i].skipped THEN <<>> ELSE results[i].saved_files)
    ELSE IF site[i].result = None THEN <<>> ELSE site[i].result.saved_files

\* C28 as stated: the SavedDocument records of a site name pairwise different
\* files, so no document saved for the site is overwritten by a later one.
C28_SavedPathsDistinct ==
    \A i \in Workers :
        \A j, k \in DOMAIN SavedNow(i) :
            SavedNow(i)[j].file = SavedNow(i)[k].file => j = k

\* entry k of the result list is the SiteResult of restaurant k of the
\* scheduled list: the one its worker returned, carrying the restaurant's
\* identifier and website, or, when the site was resumed, its directory
ResultOfRestaurant(list, k) ==
    /\ list[k] = results[k]
    /\ ~list[k].skipped =>
          /\ list[k].uuid = restaurants[k].uuid
          /\ list[k].slug = restaurants[k].slug
    /\ list[k].skipped => list[k].slug = OutDir(k)

\* C29: when the run has ended with its summary, the result list has one entry
\* for each scheduled restaurant, entry k being the result of restaurant k of
\* the input list, in whatever order the workers returned.
C29_ResultsInInputOrder ==
    run_state = "done" =>
        /\ DOMAIN summary = DOMAIN restaurants
        /\ \A k \in DOMAIN restaurants : ResultOfRestaurant(summary, k)

\* C29 witness: a run of two restaurants has ended with its result list and
\* the second restaurant returned before the first, whose metadata record
\* replaced the second's in the directory they share.
C29_SecondReturnedFirst ==
    /\ run_state = "done"
    /\ Len(restaurants) = 2
    /\ restaurants[1].uuid # restaurants[2].uuid
    /\ OutDir(1) = OutDir(2)
    /\ meta_io[1] = "ok" /\ meta_io[2] = "ok"
    /\ disk[OutDir(1)].meta \notin {None, Broken}
    /\ disk[OutDir(1)].meta.uuid = restaurants[1].uuid
    /\ summary[1].uuid = restaurants[1].uuid
    /\ summary[2].uuid = restaurants[2].uuid


====
